---- MODULE Spec2Model ----
(***************************************************************************)
(* Region-scoped permission evaluation of the geographic reference data    *)
(* application: the evaluator of apps/auth/decorators.py, the geography    *)
(* resolver and the admin query gate of apps/cities/mixins.py, over the    *)
(* permission store of apps/auth/models.py and the hierarchy of            *)
(* apps/cities/models.py.                                                  *)
(***************************************************************************)
EXTENDS Integers, FiniteSets, Sequences, TLC

\* ------------------------------------------------------------------ bounds
MaxTime == 2

\* The grants and revocations of UserPermission rows the signals log in a run.
MaxLog == 2

\* The runs of the provisioning commands.
MaxRuns == 2

\* The segments of a request path.
MaxSegments == 2

\* ------------------------------------------------------------------ domains
\* Python's None: a null foreign key, an absent argument.
NULL == "None"

\* Region ids: the regions Nordeste and Sul.
Regions == {"NE", "S"}

RegionOrNull == Regions \cup {NULL}

\* request.user: the anonymous user and a registered user.
Users == {"anon", "u1"}

is_authenticated(u) == u # "anon"

AuthUsers == {u \in Users : is_authenticated(u)}

Groups == {"g1", "g2"}

ResourceNames == {"cities.municipality"}

\* The ResourcePermission rows the administration creates.
ResourcePermissions == {<<"cities.municipality", "view">>}

PermissionTypes == {"view", "change"}

\* expires_at: <<>> is null, <<t>> is the instant t.
ExpiryValues == {<<>>} \cup {<<t>> : t \in 1..MaxTime}

VARIABLES
    resourcePerms,  \* ResourcePermission rows: <<resource_name, permission_type>>
    userPerms,      \* UserPermission rows
    groupPerms,     \* GroupResourcePermission rows
    userGroups,     \* user.groups: AuthUsers -> SUBSET Groups
    superusers,     \* the users with is_superuser set
    now,            \* timezone.now()
    stateRegion,    \* State.region
    interState,     \* IntermediateRegion.state
    immedInter,     \* ImmediateRegion.intermediate_region
    muniImmed,      \* Municipality.immediate_region
    last,           \* the latest call of the engine and what it returned
    permissionLog,  \* PermissionLog rows, in the order of their creation
    objectStore,    \* the rows of the hierarchy as the admin wrote them
    userGroupRows,  \* UserGroup rows
    groupPermissionRows, \* GroupPermission rows
    authGroups,     \* django.contrib.auth Group rows
    run,            \* the management command in progress
    userRows,       \* User rows
    evaluation      \* the evaluation in progress, between its queries

store == <<resourcePerms, userPerms, groupPerms, userGroups, superusers>>

is_superuser(u) == u \in superusers

geo == <<stateRegion, interState, immedInter, muniImmed>>

\* What the evaluator never reads: the audit trail, the rows of the hierarchy, the
\* tables of PermissionGroup membership, the Group table, the command run and the
\* User table.
tables == <<objectStore, userGroupRows, groupPermissionRows, authGroups, run, userRows,
           evaluation>>

aux == <<permissionLog, tables>>

vars == <<resourcePerms, userPerms, groupPerms, userGroups, superusers, now,
          stateRegion, interState, immedInter, muniImmed, last, permissionLog,
          objectStore, userGroupRows, groupPermissionRows, authGroups, run, userRows,
          evaluation>>

\* ------------------------------------------------------------------ geography
States == {"s1", "s2"}

IntermediateRegions == {"i1", "i2"}

ImmediateRegions == {"m1", "m2"}

Municipalities == {"c1", "c2"}

\* model._meta.model_name of the five classes of the hierarchy.
Models == {"region", "state", "intermediateregion", "immediateregion", "municipality"}

\* The instances of a model class (super().get_queryset of its admin).
Objects(model) ==
    CASE model = "region" -> Regions
      [] model = "state" -> States
      [] model = "intermediateregion" -> IntermediateRegions
      [] model = "immediateregion" -> ImmediateRegions
      [] model = "municipality" -> Municipalities
      [] OTHER -> {}

\* The objects handed to the gate: an instance of a model class of the hierarchy,
\* an instance of another class, or None.
GeoObjects == UNION {{[kind |-> m, id |-> o] : o \in Objects(m)} : m \in Models}

NoObject == [kind |-> NULL, id |-> NULL]

OtherObject == [kind |-> "group", id |-> "g1"]

GateObjects == GeoObjects \cup {NoObject, OtherObject}

\* ------------------------------------------------------------------ evaluator
\* Mutant: the expiry test accepts a grant at its expiry instant (expires_at__gte).
QualifyingUserPerms_gte(u, resource_name, permission_type) ==
    {p \in userPerms :
        /\ p.user = u
        /\ p.rp[1] = resource_name
        /\ p.rp[2] = permission_type
        /\ p.is_active
        /\ (p.expires_at = <<>> \/ p.expires_at[1] >= now)}

\* user.custom_permissions filtered on resource, type, is_active and expiry.
QualifyingUserPerms(u, resource_name, permission_type) ==
    {p \in userPerms :
        /\ p.user = u
        /\ p.rp[1] = resource_name
        /\ p.rp[2] = permission_type
        /\ p.is_active
        /\ (p.expires_at = <<>> \/ p.expires_at[1] > now)}

\* Mutant: the group rows are not filtered on permission_type.
MatchingGroupPerms_anytype(u, resource_name, permission_type) ==
    {g \in groupPerms :
        /\ g.group \in userGroups[u]
        /\ g.rp[1] = resource_name}

\* GroupResourcePermission rows of the user's groups for the resource and type.
MatchingGroupPerms(u, resource_name, permission_type) ==
    {g \in groupPerms :
        /\ g.group \in userGroups[u]
        /\ g.rp[1] = resource_name
        /\ g.rp[2] = permission_type}

\* Mutant: the region argument is ignored, every matching group row grants.
check_resource_permission_unscoped(u, resource_name, permission_type, region) ==
    IF ~is_authenticated(u) THEN FALSE
    ELSE IF QualifyingUserPerms(u, resource_name, permission_type) # {} THEN TRUE
    ELSE MatchingGroupPerms(u, resource_name, permission_type) # {}

\* Mutant: the region filter is applied without the test of the argument, so a
\* call without region matches the null-region rows only.
check_resource_permission_nullonly(u, resource_name, permission_type, region) ==
    IF ~is_authenticated(u) THEN FALSE
    ELSE IF QualifyingUserPerms(u, resource_name, permission_type) # {} THEN TRUE
    ELSE LET group_perms == MatchingGroupPerms(u, resource_name, permission_type)
         IN  {g \in group_perms : g.region = NULL \/ g.region = region} # {}

\* Mutant: the most specific row wins, a row scoped to a region overrides the
\* global rows.
check_resource_permission_override(u, resource_name, permission_type, region) ==
    IF ~is_authenticated(u) THEN FALSE
    ELSE IF QualifyingUserPerms(u, resource_name, permission_type) # {} THEN TRUE
    ELSE LET group_perms == MatchingGroupPerms(u, resource_name, permission_type)
             specific == {g \in group_perms : g.region # NULL}
             scoped == IF region = NULL THEN group_perms
                       ELSE IF specific # {} THEN {g \in specific : g.region = region}
                       ELSE group_perms
         IN  scoped # {}

check_resource_permission(u, resource_name, permission_type, region) ==
    IF ~is_authenticated(u) THEN FALSE
    ELSE IF QualifyingUserPerms(u, resource_name, permission_type) # {} THEN TRUE
    ELSE LET group_perms == MatchingGroupPerms(u, resource_name, permission_type)
             scoped == IF region # NULL
                       THEN {g \in group_perms : g.region = NULL \/ g.region = region}
                       ELSE group_perms
         IN  scoped # {}

\* The result of get_user_permitted_regions: None (global) or the region ids.
Global == [global |-> TRUE, ids |-> {}]

RegionIds(S) == [global |-> FALSE, ids |-> S]

\* Mutant: the direct grants are not consulted.
get_user_permitted_regions_nodirect(u, resource_name, permission_type) ==
    IF ~is_authenticated(u) THEN RegionIds({})
    ELSE LET group_perms == MatchingGroupPerms(u, resource_name, permission_type)
         IN  IF \E g \in group_perms : g.region = NULL
             THEN Global
             ELSE RegionIds({g.region : g \in group_perms})

\* Mutant: a null-region row is listed like any other instead of meaning global.
get_user_permitted_regions_nonull(u, resource_name, permission_type) ==
    IF ~is_authenticated(u) THEN RegionIds({})
    ELSE IF QualifyingUserPerms(u, resource_name, permission_type) # {} THEN Global
    ELSE LET group_perms == MatchingGroupPerms(u, resource_name, permission_type)
         IN  RegionIds({g.region : g \in group_perms})

\* Mutant: an unauthenticated user gets None, which callers read as global.
get_user_permitted_regions_anon_none(u, resource_name, permission_type) ==
    IF ~is_authenticated(u) THEN Global
    ELSE IF QualifyingUserPerms(u, resource_name, permission_type) # {} THEN Global
    ELSE LET group_perms == MatchingGroupPerms(u, resource_name, permission_type)
         IN  IF \E g \in group_perms : g.region = NULL
             THEN Global
             ELSE RegionIds({g.region : g \in group_perms})

get_user_permitted_regions(u, resource_name, permission_type) ==
    IF ~is_authenticated(u) THEN RegionIds({})
    ELSE IF QualifyingUserPerms(u, resource_name, permission_type) # {} THEN Global
    ELSE LET group_perms == MatchingGroupPerms(u, resource_name, permission_type)
         IN  IF \E g \in group_perms : g.region = NULL
             THEN Global
             ELSE RegionIds({g.region : g \in group_perms})

\* ------------------------------------------------------------------ admin gate
\* get_region_resource_name: region_resource_name is unset in every admin class,
\* so the name is "cities." followed by the model name.
get_region_resource_name(model) ==
    CASE model = "region" -> "cities.region"
      [] model = "state" -> "cities.state"
      [] model = "intermediateregion" -> "cities.intermediateregion"
      [] model = "immediateregion" -> "cities.immediateregion"
      [] model = "municipality" -> "cities.municipality"

\* Mutant: the Municipality case is missing, a municipality resolves to None.
_resolve_region_nomunicipality(obj) ==
    IF obj = NoObject THEN NULL
    ELSE IF obj.kind = "region" THEN obj.id
    ELSE IF obj.kind = "state" THEN stateRegion[obj.id]
    ELSE IF obj.kind = "intermediateregion" THEN
        IF interState[obj.id] # NULL THEN stateRegion[interState[obj.id]] ELSE NULL
    ELSE IF obj.kind = "immediateregion" THEN
        LET state == IF immedInter[obj.id] # NULL
                     THEN interState[immedInter[obj.id]] ELSE NULL
        IN  IF state # NULL THEN stateRegion[state] ELSE NULL
    ELSE NULL

\* _resolve_region: the Region of an object, link by link as the mixin guards them.
_resolve_region(obj) ==
    IF obj = NoObject THEN NULL
    ELSE IF obj.kind = "region" THEN obj.id
    ELSE IF obj.kind = "state" THEN stateRegion[obj.id]
    ELSE IF obj.kind = "intermediateregion" THEN
        IF interState[obj.id] # NULL THEN stateRegion[interState[obj.id]] ELSE NULL
    ELSE IF obj.kind = "immediateregion" THEN
        LET state == IF immedInter[obj.id] # NULL
                     THEN interState[immedInter[obj.id]] ELSE NULL
        IN  IF state # NULL THEN stateRegion[state] ELSE NULL
    ELSE IF obj.kind = "municipality" THEN
        LET immediate == muniImmed[obj.id]
        IN  IF immediate # NULL /\ immedInter[immediate] # NULL
            THEN LET state == interState[immedInter[immediate]]
                 IN  IF state # NULL THEN stateRegion[state] ELSE NULL
            ELSE NULL
    ELSE NULL

\* _get_user_region_ids: None for a superuser, else the evaluator's answer.
_get_user_region_ids(u, model, permission_type) ==
    IF is_superuser(u) THEN Global
    ELSE get_user_permitted_regions(u, get_region_resource_name(model), permission_type)

\* The column a lookup path reaches from a row, NULL when a join finds no row.
StateRegionId(s) == IF s = NULL THEN NULL ELSE stateRegion[s]

InterStateId(i) == IF i = NULL THEN NULL ELSE interState[i]

ImmedInterId(m) == IF m = NULL THEN NULL ELSE immedInter[m]

\* Mutant: the Municipality path filters on the state id instead of the region id
\* of the state.
_filter_queryset_by_regions_statepath(model, qs, region_ids) ==
    IF model = "region" THEN {o \in qs : o \in region_ids}
    ELSE IF model = "state" THEN
        {o \in qs : stateRegion[o] # NULL /\ stateRegion[o] \in region_ids}
    ELSE IF model = "intermediateregion" THEN
        {o \in qs : LET r == StateRegionId(interState[o])
                    IN  r # NULL /\ r \in region_ids}
    ELSE IF model = "immediateregion" THEN
        {o \in qs : LET r == StateRegionId(InterStateId(immedInter[o]))
                    IN  r # NULL /\ r \in region_ids}
    ELSE IF model = "municipality" THEN
        {o \in qs : LET r == InterStateId(ImmedInterId(muniImmed[o]))
                    IN  r # NULL /\ r \in region_ids}
    ELSE qs

\* _filter_queryset_by_regions: one lookup path per model class; SQL's IN never
\* matches a null.
_filter_queryset_by_regions(model, qs, region_ids) ==
    IF model = "region" THEN {o \in qs : o \in region_ids}
    ELSE IF model = "state" THEN
        {o \in qs : stateRegion[o] # NULL /\ stateRegion[o] \in region_ids}
    ELSE IF model = "intermediateregion" THEN
        {o \in qs : LET r == StateRegionId(interState[o])
                    IN  r # NULL /\ r \in region_ids}
    ELSE IF model = "immediateregion" THEN
        {o \in qs : LET r == StateRegionId(InterStateId(immedInter[o]))
                    IN  r # NULL /\ r \in region_ids}
    ELSE IF model = "municipality" THEN
        {o \in qs : LET r == StateRegionId(InterStateId(ImmedInterId(muniImmed[o])))
                    IN  r # NULL /\ r \in region_ids}
    ELSE qs

\* RegionScopedAdminMixin.get_queryset over all the rows of the model.
get_queryset(u, model) ==
    LET qs == Objects(model)
    IN  IF is_superuser(u) THEN qs
        ELSE LET region_ids == _get_user_region_ids(u, model, "view")
             IN  IF region_ids.global THEN qs
                 ELSE IF region_ids.ids = {} THEN {}
                 ELSE _filter_queryset_by_regions(model, qs, region_ids.ids)

\* ------------------------------------------------------------------ admin permissions
\* The permission types the admin gate asks the evaluator for.
AdminActions == {"view", "change", "delete", "add"}

\* Mutant: the region of the object is not handed to the evaluator.
_user_can_access_region_noregion(u, model, region, permission_type) ==
    IF is_superuser(u) THEN TRUE
    ELSE check_resource_permission(u, get_region_resource_name(model),
                                   permission_type, NULL)

\* _user_can_access_region: a superuser passes, else the evaluator decides for the
\* resource of the admin's model.
_user_can_access_region(u, model, region, permission_type) ==
    IF is_superuser(u) THEN TRUE
    ELSE check_resource_permission(u, get_region_resource_name(model),
                                   permission_type, region)

\* has_view_permission of the admin of a model; base is the framework's answer.
has_view_permission(u, base, model, obj) ==
    IF ~base \/ is_superuser(u) THEN base
    ELSE IF obj = NoObject THEN
        LET region_ids == _get_user_region_ids(u, model, "view")
        IN  region_ids.global \/ Cardinality(region_ids.ids) > 0
    ELSE _user_can_access_region(u, model, _resolve_region(obj), "view")

has_change_permission(u, base, model, obj) ==
    IF ~base \/ is_superuser(u) THEN base
    ELSE IF obj = NoObject THEN base
    ELSE _user_can_access_region(u, model, _resolve_region(obj), "change")

has_delete_permission(u, base, model, obj) ==
    IF ~base \/ is_superuser(u) THEN base
    ELSE IF obj = NoObject THEN base
    ELSE _user_can_access_region(u, model, _resolve_region(obj), "delete")

\* Mutant: an empty list of regions is enough to add.
has_add_permission_anylist(u, base, model) ==
    IF ~base \/ is_superuser(u) THEN base
    ELSE LET region_ids == _get_user_region_ids(u, model, "add")
         IN  region_ids.global \/ Cardinality(region_ids.ids) >= 0

has_add_permission(u, base, model) ==
    IF ~base \/ is_superuser(u) THEN base
    ELSE LET region_ids == _get_user_region_ids(u, model, "add")
         IN  region_ids.global \/ Cardinality(region_ids.ids) > 0

\* The foreign keys of the hierarchy and the model class each points to.
ForeignKeys == {"region", "state", "intermediate_region", "immediate_region"}

RelatedModel(field) ==
    CASE field = "region" -> "region"
      [] field = "state" -> "state"
      [] field = "intermediate_region" -> "intermediateregion"
      [] field = "immediate_region" -> "immediateregion"

\* The foreign key of a model class of the hierarchy (Region has none).
ForeignKeyOf(model) ==
    CASE model = "state" -> "region"
      [] model = "intermediateregion" -> "state"
      [] model = "immediateregion" -> "intermediate_region"
      [] model = "municipality" -> "immediate_region"

\* Mutant: the immediate_region choices are filtered on the id of the state.
formfield_for_foreignkey_statepath(u, model, field) ==
    LET default == Objects(RelatedModel(field))
    IN  IF is_superuser(u) THEN default
        ELSE LET region_ids == _get_user_region_ids(u, model, "add")
             IN  IF region_ids.global THEN default
                 ELSE IF field = "region" THEN
                     {o \in Regions : o \in region_ids.ids}
                 ELSE IF field = "state" THEN
                     {o \in States : stateRegion[o] # NULL /\ stateRegion[o] \in region_ids.ids}
                 ELSE IF field = "intermediate_region" THEN
                     {o \in IntermediateRegions :
                         LET r == StateRegionId(interState[o])
                         IN  r # NULL /\ r \in region_ids.ids}
                 ELSE IF field = "immediate_region" THEN
                     {o \in ImmediateRegions :
                         LET r == InterStateId(immedInter[o])
                         IN  r # NULL /\ r \in region_ids.ids}
                 ELSE default

\* formfield_for_foreignkey: the queryset of the choices of a foreign key in the
\* admin form of a model.
formfield_for_foreignkey(u, model, field) ==
    LET default == Objects(RelatedModel(field))
    IN  IF is_superuser(u) THEN default
        ELSE LET region_ids == _get_user_region_ids(u, model, "add")
             IN  IF region_ids.global THEN default
                 ELSE IF field = "region" THEN
                     {o \in Regions : o \in region_ids.ids}
                 ELSE IF field = "state" THEN
                     {o \in States : stateRegion[o] # NULL /\ stateRegion[o] \in region_ids.ids}
                 ELSE IF field = "intermediate_region" THEN
                     {o \in IntermediateRegions :
                         LET r == StateRegionId(interState[o])
                         IN  r # NULL /\ r \in region_ids.ids}
                 ELSE IF field = "immediate_region" THEN
                     {o \in ImmediateRegions :
                         LET r == StateRegionId(InterStateId(immedInter[o]))
                         IN  r # NULL /\ r \in region_ids.ids}
                 ELSE default

\* ------------------------------------------------------------------ audit trail
\* A user agent header: its text and its length in characters.
NoUserAgent == [agent |-> "", length |-> 0]

\* request.META without the headers of a client.
NoMeta == [REMOTE_ADDR |-> NULL, HTTP_X_FORWARDED_FOR |-> <<>>,
           HTTP_USER_AGENT |-> NoUserAgent]

\* PermissionLog.objects.create: resource and details are the parts of the
\* formatted strings; ip_address and user_agent default to null and ''.
PermissionLogRow(user, action, resource, details, ip_address, user_agent) ==
    [user |-> user, action |-> action, resource |-> resource, details |-> details,
     ip_address |-> ip_address, user_agent |-> user_agent]

\* signals.log_permission_granted (post_save of a created UserPermission).
log_permission_granted(p, granted_by) ==
    PermissionLogRow(p.user, "granted", <<p.rp[1], p.rp[2]>>,
                     <<"Permission granted by", granted_by>>, NULL, NoUserAgent)

\* signals.log_permission_revoked (pre_delete of a UserPermission).
log_permission_revoked(p) ==
    PermissionLogRow(p.user, "revoked", <<p.rp[1], p.rp[2]>>,
                     <<"Permission revoked">>, NULL, NoUserAgent)

\* The rows log_permission_revoked writes for a set of deleted UserPermission rows.
RECURSIVE RevokedRows(_)
RevokedRows(ps) ==
    IF ps = {} THEN <<>>
    ELSE LET p == CHOOSE x \in ps : TRUE
         IN  <<log_permission_revoked(p)>> \o RevokedRows(ps \ {p})

\* The rows of a log that the signals of UserPermission wrote: no address of a
\* request, and not the creation of an account.
GrantRows(log) ==
    {i \in DOMAIN log : log[i].ip_address = NULL /\ log[i].resource # <<"user", "creation">>}

\* ------------------------------------------------------------------ state
NoCall == [op |-> "none", user |-> NULL, resource |-> NULL, ptype |-> NULL,
           region |-> NULL, granted |-> FALSE, regions |-> RegionIds({}),
           model |-> NULL, qs |-> {}, obj |-> NoObject, base |-> FALSE,
           field |-> NULL, raised |-> NULL, meta |-> NoMeta, write_ok |-> TRUE,
           method |-> NULL, permission_id |-> <<>>, has_perm |-> FALSE,
           response |-> NULL, path |-> <<>>, location |-> <<>>,
           raise_exception |-> TRUE]

\* The hierarchy of the two regions: one State, IntermediateRegion,
\* ImmediateRegion and Municipality under each.
Fixture ==
    /\ stateRegion = [s \in States |-> IF s = "s1" THEN "NE" ELSE "S"]
    /\ interState = [i \in IntermediateRegions |-> IF i = "i1" THEN "s1" ELSE "s2"]
    /\ immedInter = [m \in ImmediateRegions |-> IF m = "m1" THEN "i1" ELSE "i2"]
    /\ muniImmed = [c \in Municipalities |-> IF c = "c1" THEN "m1" ELSE "m2"]

\* The tables a provisioning command writes, as a transaction saves them.
NoSavepoint == [authGroups |-> {}, groupPerms |-> {}, permissionLog |-> <<>>,
                userGroups |-> [u \in Users |-> {}]]

\* No evaluation is in progress.
NoEvaluation == [stage |-> "idle", user |-> NULL, resource |-> NULL, ptype |-> NULL,
                 region |-> NULL, answers |-> {}, granted |-> FALSE]

\* The options of a management command: --resource, --permissions, the flag
\* (--create-global or --auto-assign-superusers), --group-prefix and --dry-run.
NoOptions == [resource |-> NULL, permission_types |-> <<>>, flag |-> FALSE,
              group_prefix |-> NULL, dry_run |-> FALSE]

\* No command has ended yet.
NoPrevious == [cmd |-> "none", status |-> "idle", options |-> NoOptions]

\* No management command is running. previous: the command that ended last;
\* duplicates: the links the run created beside a row of the same group,
\* permission and region.
NoRun == [cmd |-> "none", status |-> "idle", raised |-> NULL, work |-> <<>>,
          todo |-> <<>>, done |-> 0, saved |-> NoSavepoint, count |-> 0,
          options |-> NoOptions, previous |-> NoPrevious, duplicates |-> 0]

\* Every row of the hierarchy is stored, the PermissionGroup tables are empty, the
\* groups and the users exist and no command runs.
InitTables ==
    /\ objectStore = [o \in GeoObjects |-> "stored"]
    /\ userGroupRows = {}
    /\ groupPermissionRows = {}
    /\ authGroups = Groups
    /\ run = NoRun
    /\ userRows = AuthUsers
    /\ evaluation = NoEvaluation

Init ==
    /\ resourcePerms = ResourcePermissions
    /\ userPerms = {}
    /\ groupPerms = {}
    /\ userGroups = [u \in Users |-> {}]
    /\ superusers = {}
    /\ now = 0
    /\ Fixture
    /\ last = NoCall
    /\ permissionLog = <<>>
    /\ InitTables

\* ------------------------------------------------------------------ store administration
\* UserPermissionAdmin: add a row (unique per user and resource permission);
\* save_model sets granted_by to the administrator and the post_save signal logs
\* the grant.
AddUserPermission(u, rp, active, exp) ==
    /\ rp \in resourcePerms
    /\ ~\E p \in userPerms : p.user = u /\ p.rp = rp
    /\ Cardinality(GrantRows(permissionLog)) < MaxLog
    /\ LET p == [user |-> u, rp |-> rp, is_active |-> active, expires_at |-> exp]
       IN  /\ userPerms' = userPerms \cup {p}
           /\ permissionLog' = Append(permissionLog, log_permission_granted(p, "admin"))
    /\ last' = NoCall
    /\ UNCHANGED <<resourcePerms, groupPerms, userGroups, superusers, now, geo, tables>>

\* UserPermissionAdmin: change is_active and expires_at of a row.
ChangeUserPermission(p, active, exp) ==
    /\ p \in userPerms
    /\ <<active, exp>> # <<p.is_active, p.expires_at>>
    /\ userPerms' = (userPerms \ {p}) \cup
          {[p EXCEPT !.is_active = active, !.expires_at = exp]}
    /\ last' = NoCall
    /\ UNCHANGED <<resourcePerms, groupPerms, userGroups, superusers, now, geo, aux>>

\* UserPermissionAdmin: delete a row; the pre_delete signal logs the revocation.
DeleteUserPermission(p) ==
    /\ p \in userPerms
    /\ Cardinality(GrantRows(permissionLog)) < MaxLog
    /\ userPerms' = userPerms \ {p}
    /\ permissionLog' = Append(permissionLog, log_permission_revoked(p))
    /\ last' = NoCall
    /\ UNCHANGED <<resourcePerms, groupPerms, userGroups, superusers, now, geo, tables>>

\* GroupResourcePermissionAdmin: add a row (unique per group, permission, region).
AddGroupPermission(g, rp, region) ==
    /\ rp \in resourcePerms
    /\ [group |-> g, rp |-> rp, region |-> region] \notin groupPerms
    /\ groupPerms' = groupPerms \cup {[group |-> g, rp |-> rp, region |-> region]}
    /\ last' = NoCall
    /\ UNCHANGED <<resourcePerms, userPerms, userGroups, superusers, now, geo, aux>>

\* GroupResourcePermissionAdmin: delete a row.
DeleteGroupPermission(g) ==
    /\ g \in groupPerms
    /\ groupPerms' = groupPerms \ {g}
    /\ last' = NoCall
    /\ UNCHANGED <<resourcePerms, userPerms, userGroups, superusers, now, geo, aux>>

\* UserAdmin: set the groups of a user.
SetUserGroups(u, gs) ==
    /\ userGroups[u] # gs
    /\ userGroups' = [userGroups EXCEPT ![u] = gs]
    /\ last' = NoCall
    /\ UNCHANGED <<resourcePerms, userPerms, groupPerms, superusers, now, geo, aux>>

\* UserAdmin: set or clear is_superuser of a user.
SetSuperuser(u, flag) ==
    /\ is_superuser(u) # flag
    /\ superusers' = IF flag THEN superusers \cup {u} ELSE superusers \ {u}
    /\ last' = NoCall
    /\ UNCHANGED <<resourcePerms, userPerms, groupPerms, userGroups, now, geo, aux>>

\* ResourcePermissionAdmin: add a row (unique per permission_type and resource_name).
AddResourcePermission(rp) ==
    /\ rp \notin resourcePerms
    /\ resourcePerms' = resourcePerms \cup {rp}
    /\ last' = NoCall
    /\ UNCHANGED <<userPerms, groupPerms, userGroups, superusers, now, geo, aux>>

\* ResourcePermissionAdmin: delete a row; the grants that reference it go with it
\* (on_delete=CASCADE), and the pre_delete signal logs each UserPermission among
\* them.
DeleteResourcePermission(rp) ==
    /\ rp \in resourcePerms
    /\ LET revoked == {p \in userPerms : p.rp = rp}
       IN  /\ Cardinality(GrantRows(permissionLog)) + Cardinality(revoked) <= MaxLog
           /\ permissionLog' = permissionLog \o RevokedRows(revoked)
    /\ resourcePerms' = resourcePerms \ {rp}
    /\ userPerms' = {p \in userPerms : p.rp # rp}
    /\ groupPerms' = {g \in groupPerms : g.rp # rp}
    /\ groupPermissionRows' = {g \in groupPermissionRows : g.rp # rp}
    /\ last' = NoCall
    /\ UNCHANGED <<userGroups, superusers, now, geo, objectStore, userGroupRows,
                   authGroups, run, userRows, evaluation>>

\* Time passes between requests.
Tick ==
    /\ now < MaxTime
    /\ now' = now + 1
    /\ last' = NoCall
    /\ UNCHANGED <<store, geo, aux>>

\* ------------------------------------------------------------------ evaluator calls
CallCheckResourcePermission(u, resource_name, permission_type, region) ==
    /\ last' = [NoCall EXCEPT !.op = "check_resource_permission", !.user = u,
                  !.resource = resource_name, !.ptype = permission_type,
                  !.region = region,
                  !.granted = check_resource_permission(u, resource_name,
                                                        permission_type, region)]
    /\ UNCHANGED <<store, now, geo, aux>>

CallGetUserPermittedRegions(u, resource_name, permission_type) ==
    /\ last' = [NoCall EXCEPT !.op = "get_user_permitted_regions", !.user = u,
                  !.resource = resource_name, !.ptype = permission_type,
                  !.regions = get_user_permitted_regions(u, resource_name,
                                                         permission_type)]
    /\ UNCHANGED <<store, now, geo, aux>>

Next ==
    \/ \E u \in AuthUsers, rp \in resourcePerms, active \in BOOLEAN, exp \in ExpiryValues :
          AddUserPermission(u, rp, active, exp)
    \/ \E p \in userPerms, active \in BOOLEAN, exp \in ExpiryValues :
          ChangeUserPermission(p, active, exp)
    \/ \E p \in userPerms : DeleteUserPermission(p)
    \/ \E g \in Groups, rp \in resourcePerms, region \in RegionOrNull :
          AddGroupPermission(g, rp, region)
    \/ \E g \in groupPerms : DeleteGroupPermission(g)
    \/ \E u \in AuthUsers, gs \in SUBSET Groups : SetUserGroups(u, gs)
    \/ \E u \in AuthUsers, flag \in BOOLEAN : SetSuperuser(u, flag)
    \/ \E rp \in ResourcePermissions : AddResourcePermission(rp)
    \/ \E rp \in ResourcePermissions : DeleteResourcePermission(rp)
    \/ Tick
    \/ \E u \in Users, r \in ResourceNames, t \in PermissionTypes, region \in RegionOrNull :
          CallCheckResourcePermission(u, r, t, region)
    \/ \E u \in Users, r \in ResourceNames, t \in PermissionTypes :
          CallGetUserPermittedRegions(u, r, t)

Spec == Init /\ [][Next]_vars

\* ------------------------------------------------------------------ the gate over the hierarchy
\* A link of the hierarchy: set to the row of the same branch, or unset.
LinkOrNull(x) == {x, NULL}

\* The group "g1" holds the view permission of every model class for the regions
\* regs (NULL in regs: a global grant).
GateGrants(regs) ==
    {[group |-> "g1", rp |-> <<get_region_resource_name(m), "view">>, region |-> r] :
        m \in Models, r \in regs}

InitGate ==
    /\ resourcePerms = {<<get_region_resource_name(m), "view">> : m \in Models}
    /\ userPerms = {}
    /\ \E regs \in SUBSET RegionOrNull : groupPerms = GateGrants(regs)
    /\ userGroups = [u \in Users |-> IF is_authenticated(u) THEN {"g1"} ELSE {}]
    /\ superusers \in SUBSET AuthUsers
    /\ now = 0
    /\ stateRegion \in [States -> RegionOrNull]
    /\ interState \in {[i \in IntermediateRegions |-> IF i = "i1" THEN a ELSE b] :
                          a \in LinkOrNull("s1"), b \in LinkOrNull("s2")}
    /\ immedInter \in {[m \in ImmediateRegions |-> IF m = "m1" THEN a ELSE b] :
                          a \in LinkOrNull("i1"), b \in LinkOrNull("i2")}
    /\ muniImmed \in {[c \in Municipalities |-> IF c = "c1" THEN a ELSE b] :
                         a \in LinkOrNull("m1"), b \in LinkOrNull("m2")}
    /\ last = NoCall
    /\ permissionLog = <<>>
    /\ InitTables

CallGetQueryset(u, model) ==
    /\ last' = [NoCall EXCEPT !.op = "get_queryset", !.user = u, !.model = model,
                  !.qs = get_queryset(u, model)]
    /\ UNCHANGED <<store, now, geo, aux>>

CallResolveRegion(obj) ==
    /\ last' = [NoCall EXCEPT !.op = "_resolve_region", !.obj = obj,
                  !.region = _resolve_region(obj)]
    /\ UNCHANGED <<store, now, geo, aux>>

NextGate ==
    \/ \E u \in Users, model \in Models : CallGetQueryset(u, model)
    \/ \E obj \in GateObjects : CallResolveRegion(obj)

SpecGate == InitGate /\ [][NextGate]_vars

\* ------------------------------------------------------------------ the permissions of the admin
\* The scope of a group for one permission type: no row, Nordeste, or a global row.
ScopeChoices == {{}, {"NE"}, {NULL}}

\* The group "g1" holds, for every model class, the permission type t for the
\* regions scope[t].
PermGrants(scope) ==
    UNION {{[group |-> "g1", rp |-> <<get_region_resource_name(m), t>>, region |-> r] :
               m \in Models, r \in scope[t]} : t \in AdminActions}

InitPerm ==
    /\ resourcePerms = {<<get_region_resource_name(m), t>> : m \in Models, t \in AdminActions}
    /\ userPerms = {}
    /\ \E scope \in [AdminActions -> ScopeChoices] :
          groupPerms = PermGrants(scope)
    /\ userGroups = [u \in Users |-> IF is_authenticated(u) THEN {"g1"} ELSE {}]
    /\ superusers \in SUBSET AuthUsers
    /\ now = 0
    /\ stateRegion \in {[s \in States |-> IF s = "s1" THEN r ELSE "S"] : r \in RegionOrNull}
    /\ interState = [i \in IntermediateRegions |-> IF i = "i1" THEN "s1" ELSE "s2"]
    /\ immedInter = [m \in ImmediateRegions |-> IF m = "m1" THEN "i1" ELSE "i2"]
    /\ muniImmed = [c \in Municipalities |-> IF c = "c1" THEN "m1" ELSE "m2"]
    /\ last = NoCall
    /\ permissionLog = <<>>
    /\ InitTables

\* super().has_*_permission: the framework's model permission, which a superuser
\* always holds.
BaseValues(u) == IF is_superuser(u) THEN {TRUE} ELSE BOOLEAN

\* The objects an admin page of a model is asked about: its rows, or None.
AdminObjects(model) == {[kind |-> model, id |-> o] : o \in Objects(model)} \cup {NoObject}

CallHasViewPermission(u, base, model, obj) ==
    /\ last' = [NoCall EXCEPT !.op = "has_view_permission", !.user = u,
                  !.base = base, !.model = model, !.obj = obj, !.ptype = "view",
                  !.granted = has_view_permission(u, base, model, obj)]
    /\ UNCHANGED <<store, now, geo, aux>>

CallHasChangePermission(u, base, model, obj) ==
    /\ last' = [NoCall EXCEPT !.op = "has_change_permission", !.user = u,
                  !.base = base, !.model = model, !.obj = obj, !.ptype = "change",
                  !.granted = has_change_permission(u, base, model, obj)]
    /\ UNCHANGED <<store, now, geo, aux>>

CallHasDeletePermission(u, base, model, obj) ==
    /\ last' = [NoCall EXCEPT !.op = "has_delete_permission", !.user = u,
                  !.base = base, !.model = model, !.obj = obj, !.ptype = "delete",
                  !.granted = has_delete_permission(u, base, model, obj)]
    /\ UNCHANGED <<store, now, geo, aux>>

CallHasAddPermission(u, base, model) ==
    /\ last' = [NoCall EXCEPT !.op = "has_add_permission", !.user = u,
                  !.base = base, !.model = model, !.ptype = "add",
                  !.granted = has_add_permission(u, base, model)]
    /\ UNCHANGED <<store, now, geo, aux>>

CallFormfieldForForeignkey(u, model, field) ==
    /\ last' = [NoCall EXCEPT !.op = "formfield_for_foreignkey", !.user = u,
                  !.model = model, !.field = field, !.ptype = "add",
                  !.qs = formfield_for_foreignkey(u, model, field)]
    /\ UNCHANGED <<store, now, geo, aux>>

NextPerm ==
    \/ \E u \in AuthUsers, base \in BOOLEAN, model \in Models, obj \in GateObjects :
          /\ base \in BaseValues(u)
          /\ obj \in AdminObjects(model)
          /\ CallHasViewPermission(u, base, model, obj)
    \/ \E u \in AuthUsers, base \in BOOLEAN, model \in Models, obj \in GateObjects :
          /\ base \in BaseValues(u)
          /\ obj \in AdminObjects(model)
          /\ CallHasChangePermission(u, base, model, obj)
    \/ \E u \in AuthUsers, base \in BOOLEAN, model \in Models, obj \in GateObjects :
          /\ base \in BaseValues(u)
          /\ obj \in AdminObjects(model)
          /\ CallHasDeletePermission(u, base, model, obj)
    \/ \E u \in AuthUsers, base \in BOOLEAN, model \in Models :
          /\ base \in BaseValues(u)
          /\ CallHasAddPermission(u, base, model)
    \/ \E u \in AuthUsers, model \in Models \ {"region"} :
          CallFormfieldForForeignkey(u, model, ForeignKeyOf(model))

SpecPerm == InitPerm /\ [][NextPerm]_vars

\* ------------------------------------------------------------------ the grants as the claims read them
\* The user holds a direct grant for (resource, action) that is active and has
\* not expired.
DirectGrantHolds(u, r, t) ==
    \E p \in userPerms :
        /\ p.user = u /\ p.rp = <<r, t>> /\ p.is_active
        /\ (p.expires_at = <<>> \/ now < p.expires_at[1])

\* The group grants for (resource, action) held by the groups of the user.
GroupGrantsOf(u, r, t) ==
    {g \in groupPerms : g.group \in userGroups[u] /\ g.rp = <<r, t>>}

\* The latest call was check_resource_permission for the user, resource and action.
LastCheck(u, r, t) ==
    /\ last.op = "check_resource_permission"
    /\ last.user = u /\ last.resource = r /\ last.ptype = t

\* The latest call was get_user_permitted_regions for the user, resource and action.
LastPermitted(u, r, t) ==
    /\ last.op = "get_user_permitted_regions"
    /\ last.user = u /\ last.resource = r /\ last.ptype = t

\* ------------------------------------------------------------------ claims
\* C1: superuser bypass. For a superuser, check_resource_permission returns true
\* for every resource, action and region (None included) and
\* get_user_permitted_regions returns Global, whatever grants the store holds.
C1_SuperuserBypass ==
    /\ (last.op = "check_resource_permission" /\ is_superuser(last.user))
          => last.granted
    /\ (last.op = "get_user_permitted_regions" /\ is_superuser(last.user))
          => last.regions = Global

\* C2: region isolation. A user whose only grant for (resource, action) is a group
\* grant scoped to region A has access in A, has no access in any other region B,
\* and the permitted regions are exactly {A}.
C2_RegionIsolation ==
    \A u \in Users, r \in ResourceNames, t \in PermissionTypes, A \in Regions :
        ( /\ ~DirectGrantHolds(u, r, t)
          /\ GroupGrantsOf(u, r, t) # {}
          /\ \A g \in GroupGrantsOf(u, r, t) : g.region = A )
        => /\ check_resource_permission(u, r, t, A)
           /\ \A B \in Regions \ {A} : ~check_resource_permission(u, r, t, B)
           /\ get_user_permitted_regions(u, r, t) = RegionIds({A})

\* A call for the other region was denied to a user scoped to one region.
C2_Witness ==
    \E u \in Users, r \in ResourceNames, t \in PermissionTypes, A \in Regions :
        /\ ~DirectGrantHolds(u, r, t)
        /\ GroupGrantsOf(u, r, t) # {}
        /\ \A g \in GroupGrantsOf(u, r, t) : g.region = A
        /\ LastCheck(u, r, t)
        /\ last.region \in Regions \ {A}
        /\ ~last.granted

\* C3: direct grant globality. An authenticated user with an active, unexpired
\* UserPermission for (resource, action) has access for every region and for no
\* region, and the permitted regions are Global, whatever the group grants are.
C3_DirectGrantGlobal ==
    \A u \in AuthUsers, r \in ResourceNames, t \in PermissionTypes :
        DirectGrantHolds(u, r, t)
        => /\ \A region \in RegionOrNull : check_resource_permission(u, r, t, region)
           /\ get_user_permitted_regions(u, r, t) = Global

\* A direct grant gave access in a region for which the user's groups hold only
\* grants of the other region.
C3_Witness ==
    \E u \in AuthUsers, r \in ResourceNames, t \in PermissionTypes :
        /\ DirectGrantHolds(u, r, t)
        /\ GroupGrantsOf(u, r, t) # {}
        /\ LastCheck(u, r, t)
        /\ last.region \in Regions
        /\ \A g \in GroupGrantsOf(u, r, t) : g.region \notin {NULL, last.region}
        /\ last.granted

\* C4: expiry. A UserPermission whose expires_at is at or before now grants
\* nothing, active or not: a user with only such a row is denied for every region
\* and has no permitted region; and an active direct grant expiring at T, the only
\* grant of the user, gives access exactly while now < T.
C4_Expiry ==
    /\ \A u \in AuthUsers, r \in ResourceNames, t \in PermissionTypes :
          ( /\ GroupGrantsOf(u, r, t) = {}
            /\ \A p \in userPerms :
                  (p.user = u /\ p.rp = <<r, t>>)
                  => (p.expires_at # <<>> /\ p.expires_at[1] <= now) )
          => /\ \A region \in RegionOrNull : ~check_resource_permission(u, r, t, region)
             /\ get_user_permitted_regions(u, r, t) = RegionIds({})
    /\ \A p \in userPerms :
          ( /\ p.is_active
            /\ p.expires_at # <<>>
            /\ GroupGrantsOf(p.user, p.rp[1], p.rp[2]) = {} )
          => \A region \in RegionOrNull :
                check_resource_permission(p.user, p.rp[1], p.rp[2], region)
                  <=> (now < p.expires_at[1])

\* A call was denied at the very instant an active direct grant expires.
C4_Witness ==
    \E p \in userPerms :
        /\ p.is_active
        /\ p.expires_at # <<>>
        /\ p.expires_at[1] = now
        /\ GroupGrantsOf(p.user, p.rp[1], p.rp[2]) = {}
        /\ LastCheck(p.user, p.rp[1], p.rp[2])
        /\ ~last.granted

\* C5: global group grant. If a group of the user holds a grant for (resource,
\* action) with a null region, the user has access in every region and the
\* permitted regions are Global, even beside region-scoped grants.
C5_GlobalGroupGrant ==
    \A u \in Users, r \in ResourceNames, t \in PermissionTypes :
        (\E g \in GroupGrantsOf(u, r, t) : g.region = NULL)
        => /\ \A R \in Regions : check_resource_permission(u, r, t, R)
           /\ get_user_permitted_regions(u, r, t) = Global

\* The permitted regions came out Global for a user without a direct grant whose
\* groups hold a global and a region-scoped grant.
C5_Witness ==
    \E u \in Users, r \in ResourceNames, t \in PermissionTypes :
        /\ ~DirectGrantHolds(u, r, t)
        /\ \E g \in GroupGrantsOf(u, r, t) : g.region = NULL
        /\ \E g \in GroupGrantsOf(u, r, t) : g.region \in Regions
        /\ LastPermitted(u, r, t)
        /\ last.regions = Global

\* C6: no grant means deny. An authenticated user who is no superuser, with no
\* qualifying direct grant and no group grant for (resource, action), is denied
\* for every region and for no region and has the empty set of permitted regions;
\* the same when no ResourcePermission row exists for (resource, action).
C6_NoGrantDeny ==
    \A u \in AuthUsers, r \in ResourceNames, t \in PermissionTypes :
        ( /\ ~is_superuser(u)
          /\ \/ <<r, t>> \notin resourcePerms
             \/ (~DirectGrantHolds(u, r, t) /\ GroupGrantsOf(u, r, t) = {}) )
        => /\ \A region \in RegionOrNull : ~check_resource_permission(u, r, t, region)
           /\ get_user_permitted_regions(u, r, t) = RegionIds({})

\* A call for an action without a ResourcePermission row was denied to a user who
\* holds a direct grant and a group grant for another action.
C6_Witness ==
    \E u \in AuthUsers, r \in ResourceNames, t \in PermissionTypes :
        /\ ~is_superuser(u)
        /\ <<r, t>> \notin resourcePerms
        /\ \E t2 \in PermissionTypes :
              DirectGrantHolds(u, r, t2) /\ GroupGrantsOf(u, r, t2) # {}
        /\ LastCheck(u, r, t)
        /\ ~last.granted

\* C7: unauthenticated users are always denied: check_resource_permission is
\* false for every resource, action and region and the permitted regions are the
\* empty set, whatever grants the store holds.
C7_UnauthenticatedDenied ==
    \A u \in Users, r \in ResourceNames, t \in PermissionTypes :
        ~is_authenticated(u)
        => /\ \A region \in RegionOrNull : ~check_resource_permission(u, r, t, region)
           /\ get_user_permitted_regions(u, r, t) = RegionIds({})

\* The permitted regions of the anonymous user came out empty while the store
\* holds a qualifying direct grant and a global group grant.
C7_Witness ==
    \E u \in Users, r \in ResourceNames, t \in PermissionTypes :
        /\ ~is_authenticated(u)
        /\ LastPermitted(u, r, t)
        /\ last.regions = RegionIds({})
        /\ \E v \in AuthUsers : DirectGrantHolds(v, r, t)
        /\ \E g \in groupPerms : g.rp = <<r, t>> /\ g.region = NULL

\* C8: unscoped check. With region = None and no qualifying direct grant, the
\* check is true iff some group grant of the user's groups matches (resource,
\* action), whatever the region of that grant.
C8_UnscopedCheck ==
    \A u \in AuthUsers, r \in ResourceNames, t \in PermissionTypes :
        ~DirectGrantHolds(u, r, t)
        => (check_resource_permission(u, r, t, NULL) <=> GroupGrantsOf(u, r, t) # {})

\* A call without a region was granted on region-scoped group grants alone.
C8_Witness ==
    \E u \in AuthUsers, r \in ResourceNames, t \in PermissionTypes :
        /\ ~DirectGrantHolds(u, r, t)
        /\ GroupGrantsOf(u, r, t) # {}
        /\ \A g \in GroupGrantsOf(u, r, t) : g.region \in Regions
        /\ LastCheck(u, r, t)
        /\ last.region = NULL
        /\ last.granted

\* The parent of an object of the hierarchy, NoObject when the link is unset.
Linked(kind, id) == IF id = NULL THEN NoObject ELSE [kind |-> kind, id |-> id]

ParentOf(obj) ==
    CASE obj.kind = "state" -> Linked("region", stateRegion[obj.id])
      [] obj.kind = "intermediateregion" -> Linked("state", interState[obj.id])
      [] obj.kind = "immediateregion" -> Linked("intermediateregion", immedInter[obj.id])
      [] obj.kind = "municipality" -> Linked("immediateregion", muniImmed[obj.id])
      [] OTHER -> NoObject

\* The Region at the top of the parent chain of an object, NULL when the chain
\* breaks; and the number of parent hops from an object up to its State.
RECURSIVE RegionByWalk(_)
RegionByWalk(obj) ==
    IF obj = NoObject THEN NULL
    ELSE IF obj.kind = "region" THEN obj.id
    ELSE RegionByWalk(ParentOf(obj))

RECURSIVE HopsToState(_)
HopsToState(obj) ==
    IF obj = NoObject \/ obj.kind \in {"region", "state"} THEN 0
    ELSE 1 + HopsToState(ParentOf(obj))

\* C9: get_queryset for a user who is no superuser: the whole queryset when the
\* permitted regions for 'view' are Global, nothing when they are the empty set,
\* else exactly the objects whose resolved Region is in the set.
C9_FilterToPermitted ==
    \A u \in Users, m \in Models :
        ~is_superuser(u)
        => LET permitted == get_user_permitted_regions(u, get_region_resource_name(m),
                                                       "view")
           IN  /\ permitted.global => get_queryset(u, m) = Objects(m)
               /\ (~permitted.global /\ permitted.ids = {}) => get_queryset(u, m) = {}
               /\ ~permitted.global =>
                     get_queryset(u, m) =
                       {o \in Objects(m) :
                           _resolve_region([kind |-> m, id |-> o]) \in permitted.ids}

\* The municipalities of a user scoped to Nordeste, over one municipality of
\* Nordeste and one of Sul, came out as the one of Nordeste.
C9_Witness ==
    /\ last.op = "get_queryset"
    /\ last.model = "municipality"
    /\ ~is_superuser(last.user)
    /\ get_user_permitted_regions(last.user, "cities.municipality", "view")
          = RegionIds({"NE"})
    /\ _resolve_region([kind |-> "municipality", id |-> "c1"]) = "NE"
    /\ _resolve_region([kind |-> "municipality", id |-> "c2"]) = "S"
    /\ last.qs = {"c1"}

UserAgentLimit == 500

\* The requests a run writes into the log.
MaxLoggedRequests == 1

\* request.META of a direct client and of a client behind proxies whose user agent
\* is longer than the limit.
RequestMetas ==
    {[REMOTE_ADDR |-> "203.0.113.9", HTTP_X_FORWARDED_FOR |-> <<>>,
      HTTP_USER_AGENT |-> [agent |-> "Mozilla", length |-> 7]],
     [REMOTE_ADDR |-> "10.0.0.2", HTTP_X_FORWARDED_FOR |-> <<"198.51.100.7", "10.0.0.1">>,
      HTTP_USER_AGENT |-> [agent |-> "Crawler", length |-> 600]]}

\* user_agent[:n]
Truncate(user_agent, n) ==
    [agent |-> user_agent.agent,
     length |-> IF user_agent.length > n THEN n ELSE user_agent.length]

\* getattr(region, 'name', 'unknown')
RegionName(region) ==
    CASE region = "NE" -> "Nordeste"
      [] region = "S" -> "Sul"
      [] OTHER -> "unknown"

\* model._meta.label
ModelLabel(model) ==
    CASE model = "region" -> "cities.Region"
      [] model = "state" -> "cities.State"
      [] model = "intermediateregion" -> "cities.IntermediateRegion"
      [] model = "immediateregion" -> "cities.ImmediateRegion"
      [] model = "municipality" -> "cities.Municipality"

\* getattr(obj, 'pk', 'new'): the key of a stored row, None before the first save.
PrimaryKey(obj) == IF objectStore[obj] = "absent" THEN NULL ELSE obj.id

\* The row _log_denied creates.
DeniedRow(u, meta, model, obj, action) ==
    PermissionLogRow(u, "access_denied", <<get_region_resource_name(model)>>,
                     <<"Denied", action, "for", ModelLabel(model), PrimaryKey(obj),
                       "region", RegionName(_resolve_region(obj))>>,
                     meta.REMOTE_ADDR,
                     Truncate(meta.HTTP_USER_AGENT, UserAgentLimit))

\* Mutant: a failed write is let out to the caller.
_log_denied_reraise(u, meta, model, obj, action, write_ok) ==
    IF write_ok
    THEN [log |-> Append(permissionLog, DeniedRow(u, meta, model, obj, action)),
          error |-> NULL]
    ELSE [log |-> permissionLog, error |-> "DatabaseError"]

\* _log_denied: the log after the call and the exception it lets out (none: a
\* failed write is caught and reported to the logger).
_log_denied(u, meta, model, obj, action, write_ok) ==
    IF write_ok
    THEN [log |-> Append(permissionLog, DeniedRow(u, meta, model, obj, action)),
          error |-> NULL]
    ELSE [log |-> permissionLog, error |-> NULL]

\* The rows above an object of the hierarchy, and the rows a delete of it takes
\* along (on_delete=CASCADE down the hierarchy).
RECURSIVE Ancestors(_)
Ancestors(obj) ==
    IF ParentOf(obj) = NoObject THEN {}
    ELSE {ParentOf(obj)} \cup Ancestors(ParentOf(obj))

CascadeOf(obj) == {obj} \cup {o \in GeoObjects : obj \in Ancestors(o)}

\* ModelAdmin.save_model and ModelAdmin.delete_model: obj.save() and obj.delete().
ModelAdmin_save_model(obj, change) ==
    [objectStore EXCEPT ![obj] = IF change THEN "changed" ELSE "stored"]

ModelAdmin_delete_model(obj) ==
    LET deleted == CascadeOf(obj)
    IN  [o \in GeoObjects |-> IF o \in deleted THEN "absent" ELSE objectStore[o]]

\* save_model: the exception raised, the log and the rows after the call.
save_model(u, meta, model, obj, change, write_ok) ==
    LET action == IF change THEN "change" ELSE "add"
        denied == /\ ~is_superuser(u)
                  /\ ~_user_can_access_region(u, model, _resolve_region(obj), action)
        logged == _log_denied(u, meta, model, obj, action, write_ok)
    IN  IF denied
        THEN [raised |-> IF logged.error # NULL THEN logged.error ELSE "PermissionDenied",
              log |-> logged.log, objects |-> objectStore]
        ELSE [raised |-> NULL, log |-> permissionLog,
              objects |-> ModelAdmin_save_model(obj, change)]

delete_model(u, meta, model, obj, write_ok) ==
    LET denied == /\ ~is_superuser(u)
                  /\ ~_user_can_access_region(u, model, _resolve_region(obj), "delete")
        logged == _log_denied(u, meta, model, obj, "delete", write_ok)
    IN  IF denied
        THEN [raised |-> IF logged.error # NULL THEN logged.error ELSE "PermissionDenied",
              log |-> logged.log, objects |-> objectStore]
        ELSE [raised |-> NULL, log |-> permissionLog,
              objects |-> ModelAdmin_delete_model(obj)]

\* ------------------------------------------------------------------ PermissionRequiredMixin
PermissionGroups == {"pg1"}

\* PermissionRequiredMixin.get_client_ip: the first address of X-Forwarded-For,
\* else REMOTE_ADDR.
get_client_ip(meta) ==
    IF meta.HTTP_X_FORWARDED_FOR # <<>>
    THEN Head(meta.HTTP_X_FORWARDED_FOR)
    ELSE meta.REMOTE_ADDR

AccessRow(u, meta, resource_name, permission_type, granted) ==
    PermissionLogRow(u, IF ~granted THEN "access_denied" ELSE "granted",
                     <<resource_name, permission_type>>,
                     <<"Access", IF granted THEN "granted" ELSE "denied", "for",
                       resource_name>>,
                     get_client_ip(meta), meta.HTTP_USER_AGENT)

\* Mutant: a failed write is let out to the caller.
log_permission_access_reraise(u, meta, resource_name, permission_type, granted, write_ok) ==
    IF write_ok
    THEN [log |-> Append(permissionLog,
                         AccessRow(u, meta, resource_name, permission_type, granted)),
          error |-> NULL]
    ELSE [log |-> permissionLog, error |-> "DatabaseError"]

\* log_permission_access: the log after the call and the exception it lets out.
log_permission_access(u, meta, resource_name, permission_type, granted, write_ok) ==
    IF write_ok
    THEN [log |-> Append(permissionLog,
                         AccessRow(u, meta, resource_name, permission_type, granted)),
          error |-> NULL]
    ELSE [log |-> permissionLog, error |-> NULL]

\* PermissionRequiredMixin.check_resource_permission: a direct grant, else a
\* GroupPermission of a PermissionGroup the user is an active member of; every
\* answer is logged.
PermissionRequiredMixin_check_resource_permission(u, meta, resource_name, permission_type, write_ok) ==
    LET user_groups == {m.group : m \in {x \in userGroupRows : x.user = u /\ x.is_active}}
        group_perms == {g \in groupPermissionRows :
                           /\ g.group \in user_groups
                           /\ g.rp[1] = resource_name
                           /\ g.rp[2] = permission_type}
        granted == \/ QualifyingUserPerms(u, resource_name, permission_type) # {}
                   \/ group_perms # {}
        logged == log_permission_access(u, meta, resource_name, permission_type,
                                        granted, write_ok)
    IN  [granted |-> granted, log |-> logged.log, error |-> logged.error]

\* dispatch of a view that sets resource_name (raise_exception is left True).
dispatch(u, meta, resource_name, permission_type, write_ok) ==
    LET checked == PermissionRequiredMixin_check_resource_permission(
                       u, meta, resource_name, permission_type, write_ok)
    IN  [granted |-> checked.granted, log |-> checked.log,
         raised |-> IF checked.error # NULL THEN checked.error
                    ELSE IF ~checked.granted THEN "PermissionDenied"
                    ELSE NULL]

\* ------------------------------------------------------------------ the admin at work
\* The model classes whose admin pages the run visits.
AuditModels == {"state", "municipality"}

\* The resource of CityListView.
CityResource == <<"cities.city", "view">>

\* The user is no member, an active member or a suspended member of the
\* PermissionGroup, which holds the view permission of CityListView.
Memberships ==
    {{}, {[user |-> "u1", group |-> "pg1", is_active |-> TRUE]},
         {[user |-> "u1", group |-> "pg1", is_active |-> FALSE]}}

InitAudit ==
    /\ resourcePerms = {<<get_region_resource_name(m), t>> : m \in Models, t \in AdminActions}
                          \cup {CityResource}
    /\ userPerms = {}
    /\ userGroups = [u \in Users |-> IF is_authenticated(u) THEN {"g1"} ELSE {}]
    /\ superusers \in SUBSET AuthUsers
    /\ now = 0
    /\ stateRegion \in {[s \in States |-> IF s = "s1" THEN r ELSE "S"] : r \in RegionOrNull}
    /\ interState = [i \in IntermediateRegions |-> IF i = "i1" THEN "s1" ELSE "s2"]
    /\ immedInter = [m \in ImmediateRegions |-> IF m = "m1" THEN "i1" ELSE "i2"]
    /\ muniImmed = [c \in Municipalities |-> IF c = "c1" THEN "m1" ELSE "m2"]
    /\ last = NoCall
    /\ permissionLog = <<>>
    /\ objectStore = [o \in GeoObjects |->
                         IF o \in CascadeOf([kind |-> "state", id |-> "s2"])
                         THEN "absent" ELSE "stored"]
    /\ groupPermissionRows = {[group |-> "pg1", rp |-> CityResource]}
    /\ authGroups = Groups
    /\ run = NoRun
    /\ userRows = AuthUsers
    /\ evaluation = NoEvaluation
    /\ \/ /\ \E scope \in [AdminActions -> {{}, {"NE"}}] :
                /\ scope["view"] = {"NE"}
                /\ groupPerms = PermGrants(scope)
          /\ userGroupRows = {}
       \/ /\ groupPerms = PermGrants([t \in AdminActions |-> {"NE"}])
          /\ userGroupRows \in Memberships

\* A row can be saved under a parent that is stored, or under none.
ParentStored(obj) ==
    IF ParentOf(obj) = NoObject THEN TRUE
    ELSE objectStore[ParentOf(obj)] # "absent"

\* The admin saves a row: a change of a stored row, or the first save of a new one.
SaveModel(u, meta, model, obj, change, write_ok) ==
    /\ obj.kind = model
    /\ change <=> objectStore[obj] # "absent"
    /\ ParentStored(obj)
    /\ \E result \in {save_model(u, meta, model, obj, change, write_ok)} :
           /\ write_ok \/ result.raised # NULL
           /\ Len(result.log) <= MaxLoggedRequests
           /\ permissionLog' = result.log
           /\ objectStore' = result.objects
           /\ last' = [NoCall EXCEPT !.op = "save_model", !.user = u, !.model = model,
                         !.obj = obj, !.ptype = IF change THEN "change" ELSE "add",
                         !.meta = meta, !.write_ok = write_ok,
                         !.raised = result.raised]
    /\ UNCHANGED <<store, now, geo, userGroupRows, groupPermissionRows, authGroups, run,
                   userRows, evaluation>>

\* The admin deletes a stored row.
DeleteModel(u, meta, model, obj, write_ok) ==
    /\ obj.kind = model
    /\ objectStore[obj] # "absent"
    /\ \E result \in {delete_model(u, meta, model, obj, write_ok)} :
           /\ write_ok \/ result.raised # NULL
           /\ Len(result.log) <= MaxLoggedRequests
           /\ permissionLog' = result.log
           /\ objectStore' = result.objects
           /\ last' = [NoCall EXCEPT !.op = "delete_model", !.user = u, !.model = model,
                         !.obj = obj, !.ptype = "delete", !.meta = meta,
                         !.write_ok = write_ok, !.raised = result.raised]
    /\ UNCHANGED <<store, now, geo, userGroupRows, groupPermissionRows, authGroups, run,
                   userRows, evaluation>>

\* A request for CityListView reaches dispatch.
Dispatch(u, meta, write_ok) ==
    /\ \E result \in {dispatch(u, meta, CityResource[1], CityResource[2], write_ok)} :
           /\ Len(result.log) <= MaxLoggedRequests
           /\ permissionLog' = result.log
           /\ last' = [NoCall EXCEPT !.op = "dispatch", !.user = u,
                         !.resource = CityResource[1], !.ptype = CityResource[2],
                         !.meta = meta, !.write_ok = write_ok,
                         !.granted = result.granted, !.raised = result.raised]
    /\ UNCHANGED <<store, now, geo, tables>>

NextAudit ==
    \/ \E u \in AuthUsers, meta \in RequestMetas, obj \in GeoObjects,
            change \in BOOLEAN, write_ok \in BOOLEAN :
          /\ obj.kind \in AuditModels
          /\ SaveModel(u, meta, obj.kind, obj, change, write_ok)
    \/ \E u \in AuthUsers, meta \in RequestMetas, obj \in GeoObjects, write_ok \in BOOLEAN :
          /\ obj.kind \in AuditModels
          /\ DeleteModel(u, meta, obj.kind, obj, write_ok)
    \/ \E u \in AuthUsers, obj \in GeoObjects :
          /\ obj.kind \in AuditModels
          /\ objectStore[obj] # "absent"
          /\ CallHasChangePermission(u, TRUE, obj.kind, obj)
    \/ \E u \in AuthUsers, obj \in GeoObjects :
          /\ obj.kind \in AuditModels
          /\ objectStore[obj] # "absent"
          /\ CallHasDeletePermission(u, TRUE, obj.kind, obj)
    \/ \E u \in AuthUsers, meta \in RequestMetas, write_ok \in BOOLEAN :
          Dispatch(u, meta, write_ok)

SpecAudit == InitAudit /\ [][NextAudit]_vars

\* C11: for a concrete object and a user who is no superuser and passes the base
\* permission, has_view_permission, has_change_permission and
\* has_delete_permission are check_resource_permission for 'view', 'change' and
\* 'delete' at the resolved region of the object; for a superuser they are the
\* base permission.
C11_ObjectLevelGate ==
    \A u \in AuthUsers, m \in Models, o \in GeoObjects :
        o.kind = m =>
            LET name == get_region_resource_name(m)
                region == _resolve_region(o)
            IN  /\ ~is_superuser(u) =>
                      /\ has_view_permission(u, TRUE, m, o)
                            = check_resource_permission(u, name, "view", region)
                      /\ has_change_permission(u, TRUE, m, o)
                            = check_resource_permission(u, name, "change", region)
                      /\ has_delete_permission(u, TRUE, m, o)
                            = check_resource_permission(u, name, "delete", region)
                /\ is_superuser(u) =>
                      \A base \in BaseValues(u) :
                          /\ has_view_permission(u, base, m, o) = base
                          /\ has_change_permission(u, base, m, o) = base
                          /\ has_delete_permission(u, base, m, o) = base

\* A user scoped to Nordeste for 'change' and without a 'delete' row was asked
\* about a municipality of Nordeste whose state s2 lies outside it: change was
\* granted, and delete is refused.
C11_Witness ==
    /\ last.op = "has_change_permission"
    /\ ~is_superuser(last.user)
    /\ last.base
    /\ last.obj = [kind |-> "municipality", id |-> "c1"]
    /\ _resolve_region(last.obj) = "NE"
    /\ stateRegion["s2"] # "NE"
    /\ get_user_permitted_regions(last.user, "cities.municipality", "change")
          = RegionIds({"NE"})
    /\ last.granted
    /\ ~has_change_permission(last.user, TRUE, "municipality",
                              [kind |-> "municipality", id |-> "c2"])
    /\ ~has_delete_permission(last.user, TRUE, "municipality", last.obj)

\* What an admin request of a user who is no superuser was about: the permitted
\* regions for its action and the resolved region of its object.
ObjectChecks == {"has_change_permission", "has_delete_permission"}

ObjectWrites == {"save_model", "delete_model"}

\* C12: a user who is no superuser and whose permitted regions for the action
\* are a concrete set cannot act on an object whose resolved region is not in
\* the set: has_change_permission and has_delete_permission return false, and
\* save_model and delete_model raise PermissionDenied and leave the rows as they
\* were.
C12_GateIsolation ==
    [][(last'.op \in ObjectChecks \cup ObjectWrites /\ last'.obj # NoObject) =>
          LET u == last'.user
              permitted == get_user_permitted_regions(
                               u, get_region_resource_name(last'.model), last'.ptype)
              outside == /\ ~is_superuser(u)
                         /\ ~permitted.global
                         /\ _resolve_region(last'.obj) \notin permitted.ids
          IN  outside =>
                  /\ last'.op \in ObjectChecks => ~last'.granted
                  /\ last'.op \in ObjectWrites =>
                        /\ last'.raised = "PermissionDenied"
                        /\ objectStore' = objectStore]_vars

\* C14: every denial of a 'change', 'delete' or 'add' of an object appends one
\* PermissionLog row with action 'access_denied' that holds the acting user, the
\* attempted action, the name of the resolved region or 'unknown', the client
\* address and the user agent, and the denial reaches the caller.
C14_DenialAudit ==
    [][LET refused == /\ last'.op \in ObjectChecks
                      /\ last'.obj # NoObject
                      /\ last'.base
                      /\ ~last'.granted
           raised == /\ last'.op \in ObjectWrites
                     /\ last'.raised # NULL
       IN  (refused \/ raised) =>
               /\ Len(permissionLog') = Len(permissionLog) + 1
               /\ LET row == permissionLog'[Len(permissionLog')]
                  IN  /\ row.user = last'.user
                      /\ row.action = "access_denied"
                      /\ row.details[2] = last'.ptype
                      /\ row.details[7] = RegionName(_resolve_region(last'.obj))
                      /\ row.ip_address = last'.meta.REMOTE_ADDR
                      /\ row.user_agent.agent = last'.meta.HTTP_USER_AGENT.agent
               /\ raised => last'.raised = "PermissionDenied"]_vars

\* C15: a failed write of the PermissionLog row is caught and not raised again,
\* and the decision of the request is the one it is when the write succeeds:
\* for save_model and delete_model, which log through _log_denied, and for
\* dispatch, which logs through log_permission_access.
C15_AuditWriteFailure ==
    /\ last.op \in ObjectWrites \cup {"dispatch"} =>
          last.raised \in {NULL, "PermissionDenied"}
    /\ last.op = "save_model" =>
          last.raised = save_model(last.user, last.meta, last.model, last.obj,
                                   last.ptype = "change", TRUE).raised
    /\ last.op = "delete_model" =>
          last.raised = delete_model(last.user, last.meta, last.model, last.obj,
                                     TRUE).raised
    /\ last.op = "dispatch" =>
          LET logged == dispatch(last.user, last.meta, last.resource, last.ptype, TRUE)
          IN  /\ last.raised = logged.raised
              /\ last.granted = logged.granted

\* A save outside the regions of the user, whose log row could not be written,
\* raised PermissionDenied and left the log empty.
C15_Witness ==
    /\ last.op = "save_model"
    /\ ~last.write_ok
    /\ last.raised = "PermissionDenied"
    /\ permissionLog = <<>>
    /\ objectStore[last.obj] = "stored"

\* C13: without an object, a user who is no superuser and passes the base
\* permission gets has_view_permission, and has_add_permission, exactly when the
\* permitted regions for 'view', resp. 'add', are Global or a non-empty set; the
\* empty set denies.
C13_NoObjectGate ==
    \A u \in AuthUsers, m \in Models :
        ~is_superuser(u) =>
            LET viewable == get_user_permitted_regions(u, get_region_resource_name(m), "view")
                addable == get_user_permitted_regions(u, get_region_resource_name(m), "add")
            IN  /\ has_view_permission(u, TRUE, m, NoObject)
                      = (viewable.global \/ viewable.ids # {})
                /\ has_add_permission(u, TRUE, m)
                      = (addable.global \/ addable.ids # {})
                /\ viewable = RegionIds({}) => ~has_view_permission(u, TRUE, m, NoObject)
                /\ addable = RegionIds({}) => ~has_add_permission(u, TRUE, m)

\* A user who may view the states of Nordeste and holds no 'add' row asked to add
\* a state and was refused, while the list view is open to them.
C13_Witness ==
    /\ last.op = "has_add_permission"
    /\ ~is_superuser(last.user)
    /\ last.base
    /\ last.model = "state"
    /\ get_user_permitted_regions(last.user, "cities.state", "add") = RegionIds({})
    /\ get_user_permitted_regions(last.user, "cities.state", "view") = RegionIds({"NE"})
    /\ ~last.granted
    /\ has_view_permission(last.user, TRUE, "state", NoObject)

\* C16: formfield_for_foreignkey offers a user who is no superuser and whose
\* permitted regions for 'add' are a concrete set exactly the rows of the related
\* model whose resolved Region is in the set, none for the empty set; a superuser
\* and a Global result get every row of the related model.
C16_ForeignKeyChoices ==
    \A u \in AuthUsers, m \in Models, field \in ForeignKeys :
        LET permitted == get_user_permitted_regions(u, get_region_resource_name(m), "add")
            related == RelatedModel(field)
        IN  /\ (~is_superuser(u) /\ ~permitted.global) =>
                  formfield_for_foreignkey(u, m, field) =
                      {o \in Objects(related) :
                          _resolve_region([kind |-> related, id |-> o]) \in permitted.ids}
            /\ (~is_superuser(u) /\ permitted = RegionIds({})) =>
                  formfield_for_foreignkey(u, m, field) = {}
            /\ (is_superuser(u) \/ permitted.global) =>
                  formfield_for_foreignkey(u, m, field) = Objects(related)

\* The form to add a municipality, for a user who may add in Nordeste, offered
\* the immediate region of Nordeste and not the one of Sul.
C16_Witness ==
    /\ last.op = "formfield_for_foreignkey"
    /\ ~is_superuser(last.user)
    /\ last.model = "municipality"
    /\ last.field = "immediate_region"
    /\ get_user_permitted_regions(last.user, "cities.municipality", "add")
          = RegionIds({"NE"})
    /\ _resolve_region([kind |-> "immediateregion", id |-> "m1"]) = "NE"
    /\ _resolve_region([kind |-> "immediateregion", id |-> "m2"]) = "S"
    /\ last.qs = {"m1"}

\* ------------------------------------------------------------------ the views of the grants
\* The addresses of the requests that start with '127.', '10.', '172.16.' or
\* '192.168.'.
PrivateAddresses == {"10.0.0.1", "10.0.0.2"}

\* The rightmost address of X-Forwarded-For that is not private, if any.
RECURSIVE LastPublic(_)
LastPublic(ips) ==
    IF ips = <<>> THEN NULL
    ELSE IF ips[Len(ips)] \notin PrivateAddresses THEN ips[Len(ips)]
    ELSE LastPublic(SubSeq(ips, 1, Len(ips) - 1))

\* views.get_client_ip
views_get_client_ip(meta) ==
    IF LastPublic(meta.HTTP_X_FORWARDED_FOR) # NULL
    THEN LastPublic(meta.HTTP_X_FORWARDED_FOR)
    ELSE IF meta.REMOTE_ADDR = NULL THEN "0.0.0.0" ELSE meta.REMOTE_ADDR

\* request.user.has_perm: a superuser holds every permission, another user the
\* model permissions assigned to the account (held), AnonymousUser none.
has_perm(u, held) == is_authenticated(u) /\ (is_superuser(u) \/ held)

\* The key of a UserPermission row (unique per user and resource permission).
PermissionIds == {<<u, rp>> : u \in AuthUsers, rp \in ResourcePermissions}

\* The row the view writes for a revocation.
RevokedByRow(p, caller, meta) ==
    PermissionLogRow(p.user, "revoked", <<p.rp[1], p.rp[2]>>,
                     <<"Permission revoked by", caller>>,
                     views_get_client_ip(meta), meta.HTTP_USER_AGENT)

\* Mutant: the view does not ask for 'auth.change_userpermission'.
revoke_permission_view_nocheck(caller, held, method, permission_id, meta) ==
    LET found == {p \in userPerms : <<p.user, p.rp>> = permission_id}
        same == [userPerms |-> userPerms, log |-> permissionLog]
    IN  IF ~is_authenticated(caller)
        THEN [response |-> "login", raised |-> NULL] @@ same
        ELSE IF found = {}
        THEN [response |-> NULL, raised |-> "Http404"] @@ same
        ELSE IF method = "POST"
        THEN LET p == CHOOSE x \in found : TRUE
             IN  [response |-> "auth:user_permission_list", raised |-> NULL,
                  userPerms |-> (userPerms \ {p}) \cup {[p EXCEPT !.is_active = FALSE]},
                  log |-> Append(permissionLog, RevokedByRow(p, caller, meta))]
        ELSE [response |-> "auth/revoke_permission.html", raised |-> NULL] @@ same

\* revoke_permission_view behind login_required: the response, and the
\* UserPermission rows and the log after the request.
revoke_permission_view(caller, held, method, permission_id, meta) ==
    LET found == {p \in userPerms : <<p.user, p.rp>> = permission_id}
        same == [userPerms |-> userPerms, log |-> permissionLog]
    IN  IF ~is_authenticated(caller)
        THEN [response |-> "login", raised |-> NULL] @@ same
        ELSE IF ~has_perm(caller, held)
        THEN [response |-> "core:main", raised |-> NULL] @@ same
        ELSE IF found = {}
        THEN [response |-> NULL, raised |-> "Http404"] @@ same
        ELSE IF method = "POST"
        THEN LET p == CHOOSE x \in found : TRUE
             IN  [response |-> "auth:user_permission_list", raised |-> NULL,
                  userPerms |-> (userPerms \ {p}) \cup {[p EXCEPT !.is_active = FALSE]},
                  log |-> Append(permissionLog, RevokedByRow(p, caller, meta))]
        ELSE [response |-> "auth/revoke_permission.html", raised |-> NULL] @@ same

\* signals.log_user_creation (post_save of a created User).
log_user_creation(u) ==
    PermissionLogRow(u, "granted", <<"user", "creation">>, <<"User account created">>,
                     NULL, NoUserAgent)

\* Mutant: PermissionLogAdmin keeps the delete permission of ModelAdmin.
PermissionLogAdmin_has_delete_permission_default(obj) == TRUE

\* PermissionLogAdmin.has_delete_permission
PermissionLogAdmin_has_delete_permission(obj) == FALSE

\* The rows of the log a user is not the subject of.
RECURSIVE LogWithout(_, _)
LogWithout(log, u) ==
    IF log = <<>> THEN <<>>
    ELSE IF Head(log).user = u THEN LogWithout(Tail(log), u)
    ELSE <<Head(log)>> \o LogWithout(Tail(log), u)

\* The delete view of UserAdmin: the deletion is refused when the admin of a row
\* that would go with the user gives no delete permission; else the user goes
\* with the rows that reference it (on_delete=CASCADE), the pre_delete signal
\* logging each UserPermission among them before the rows of the log go.
UserAdmin_delete_view(u) ==
    LET related == {permissionLog[i] : i \in DOMAIN permissionLog}
        perms_needed == \E row \in related :
                            row.user = u /\ ~PermissionLogAdmin_has_delete_permission(row)
        revoked == {p \in userPerms : p.user = u}
    IN  IF perms_needed
        THEN [raised |-> "PermissionDenied", userRows |-> userRows,
              userPerms |-> userPerms, log |-> permissionLog]
        ELSE [raised |-> NULL, userRows |-> userRows \ {u},
              userPerms |-> userPerms \ revoked,
              log |-> LogWithout(permissionLog \o RevokedRows(revoked), u)]

\* ------------------------------------------------------------------ the grants and their log at work
\* The rows of the log written with the address of a request.
RequestRows(log) == {i \in DOMAIN log : log[i].ip_address # NULL}

\* An empty database but for the resource permission and a global grant of it to
\* the group "g1".
InitLog ==
    /\ resourcePerms = ResourcePermissions
    /\ userPerms = {}
    /\ groupPerms = {[group |-> "g1", rp |-> rp, region |-> NULL] : rp \in ResourcePermissions}
    /\ userGroups = [u \in Users |-> {}]
    /\ superusers = {}
    /\ now = 0
    /\ Fixture
    /\ last = NoCall
    /\ permissionLog = <<>>
    /\ objectStore = [o \in GeoObjects |-> "stored"]
    /\ userGroupRows = {}
    /\ groupPermissionRows = {}
    /\ authGroups = Groups
    /\ run = NoRun
    /\ userRows = {}
    /\ evaluation = NoEvaluation

\* UserAdmin add (or createsuperuser): the user is stored and the post_save signal
\* logs the creation.
CreateUser(u, is_su) ==
    /\ u \notin userRows
    /\ userRows' = userRows \cup {u}
    /\ superusers' = IF is_su THEN superusers \cup {u} ELSE superusers \ {u}
    /\ userGroups' = [userGroups EXCEPT ![u] = {}]
    /\ permissionLog' = Append(permissionLog, log_user_creation(u))
    /\ last' = NoCall
    /\ UNCHANGED <<resourcePerms, userPerms, groupPerms, now, geo, objectStore,
                   userGroupRows, groupPermissionRows, authGroups, run, evaluation>>

\* UserAdmin delete.
DeleteUser(u) ==
    /\ u \in userRows
    /\ \E result \in {UserAdmin_delete_view(u)} :
          /\ userRows' = result.userRows
          /\ userPerms' = result.userPerms
          /\ permissionLog' = result.log
          /\ superusers' = IF result.raised = NULL THEN superusers \ {u} ELSE superusers
          /\ userGroups' = IF result.raised = NULL
                           THEN [userGroups EXCEPT ![u] = {}] ELSE userGroups
          /\ last' = [NoCall EXCEPT !.op = "UserAdmin.delete_view", !.user = u,
                        !.raised = result.raised]
    /\ UNCHANGED <<resourcePerms, groupPerms, now, geo, objectStore,
                   userGroupRows, groupPermissionRows, authGroups, run, evaluation>>

\* A request for revoke_permission_view.
RevokePermissionView(caller, held, method, permission_id, meta) ==
    /\ caller \in userRows \cup {"anon"}
    /\ \E result \in {revoke_permission_view(caller, held, method, permission_id, meta)} :
          /\ Cardinality(RequestRows(result.log)) <= MaxLoggedRequests
          /\ userPerms' = result.userPerms
          /\ permissionLog' = result.log
          /\ last' = [NoCall EXCEPT !.op = "revoke_permission_view", !.user = caller,
                        !.has_perm = has_perm(caller, held), !.method = method,
                        !.permission_id = permission_id, !.meta = meta,
                        !.response = result.response, !.raised = result.raised]
    /\ UNCHANGED <<resourcePerms, groupPerms, userGroups, superusers, now, geo, tables>>

NextLog ==
    \/ \E u \in AuthUsers, is_su \in BOOLEAN : CreateUser(u, is_su)
    \/ \E u \in AuthUsers : DeleteUser(u)
    \/ \E u \in AuthUsers, rp \in resourcePerms, active \in BOOLEAN, exp \in ExpiryValues :
          /\ u \in userRows
          /\ AddUserPermission(u, rp, active, exp)
    \/ \E p \in userPerms, active \in BOOLEAN, exp \in ExpiryValues :
          ChangeUserPermission(p, active, exp)
    \/ \E p \in userPerms : DeleteUserPermission(p)
    \/ \E rp \in ResourcePermissions : DeleteResourcePermission(rp)
    \/ \E u \in AuthUsers, gs \in SUBSET {"g1"} :
          /\ u \in userRows
          /\ SetUserGroups(u, gs)
    \/ Tick
    \/ \E caller \in Users, held \in BOOLEAN, method \in {"GET", "POST"},
            permission_id \in PermissionIds, meta \in RequestMetas :
          RevokePermissionView(caller, held, method, permission_id, meta)
    \/ \E u \in AuthUsers, rp \in ResourcePermissions :
          /\ u \in userRows
          /\ CallCheckResourcePermission(u, rp[1], rp[2], NULL)

SpecLog == InitLog /\ [][NextLog]_vars

\* C17: PermissionLog is append-only: every step of the administration of users
\* and grants, of the revocation view and of the evaluator keeps the rows of the
\* log as they were and in their order, and only adds rows behind them.
C17_AppendOnly ==
    [][/\ Len(permissionLog') >= Len(permissionLog)
       /\ SubSeq(permissionLog', 1, Len(permissionLog)) = permissionLog]_vars

\* The admin refused to delete a user whose grant had been given and deleted: the
\* user and the three rows of the log about the account are still there.
C17_Witness ==
    /\ last.op = "UserAdmin.delete_view"
    /\ last.raised = "PermissionDenied"
    /\ last.user \in userRows
    /\ userPerms = {}
    /\ Len(permissionLog) = 3
    /\ permissionLog[1] = log_user_creation(last.user)
    /\ permissionLog[2].action = "granted"
    /\ permissionLog[3].action = "revoked"

\* C19: a POST to revoke_permission_view by a caller who holds
\* 'auth.change_userpermission' leaves the targeted UserPermission with
\* is_active false and otherwise as it was, so that the direct path grants
\* nothing and check_resource_permission is true only by a group grant, and puts
\* a 'revoked' row for the user and the resource at the end of the log; a call by
\* a caller without the permission leaves the UserPermission rows as they were;
\* and no request, evaluation or passing of time makes a row that is not active
\* active again or removes it: only the administration of the grants does.
C19_SoftRevocation ==
    [][/\ \A id \in PermissionIds :
           (last'.op = "revoke_permission_view" /\ last'.permission_id = id) =>
             LET target == {p \in userPerms : <<p.user, p.rp>> = id}
                 after == {p \in userPerms' : <<p.user, p.rp>> = id}
             IN  /\ (last'.has_perm /\ last'.method = "POST" /\ target # {}) =>
                       /\ after = {[p EXCEPT !.is_active = FALSE] : p \in target}
                       /\ userPerms' \ after = userPerms \ target
                       /\ QualifyingUserPerms(id[1], id[2][1], id[2][2])' = {}
                       /\ check_resource_permission(id[1], id[2][1], id[2][2], NULL)'
                             = (MatchingGroupPerms(id[1], id[2][1], id[2][2])' # {})
                       /\ Len(permissionLog') = Len(permissionLog) + 1
                       /\ SubSeq(permissionLog', 1, Len(permissionLog)) = permissionLog
                       /\ LET row == permissionLog'[Len(permissionLog')]
                          IN  /\ row.action = "revoked"
                              /\ row.user = id[1]
                              /\ row.resource = <<id[2][1], id[2][2]>>
                 /\ ~last'.has_perm =>
                       /\ userPerms' = userPerms
                       /\ permissionLog' = permissionLog
       /\ (last'.op # "none" \/ now' # now) =>
             \A p \in userPerms : ~p.is_active => p \in userPerms']_vars

\* A superuser revoked by POST, from behind a proxy, the grant without expiry of
\* a user in no group: the row is kept and not active, the evaluator refuses, and
\* the log ends with the row of the revocation at the address of the client.
C19_Witness ==
    /\ last.op = "revoke_permission_view"
    /\ last.method = "POST"
    /\ last.has_perm
    /\ last.response = "auth:user_permission_list"
    /\ userPerms = {[user |-> "u1", rp |-> <<"cities.municipality", "view">>,
                     is_active |-> FALSE, expires_at |-> <<>>]}
    /\ userGroups["u1"] = {}
    /\ ~check_resource_permission("u1", "cities.municipality", "view", NULL)
    /\ Len(permissionLog) = 3
    /\ permissionLog[2].action = "granted"
    /\ permissionLog[3].action = "revoked"
    /\ permissionLog[3].details = <<"Permission revoked by", last.user>>
    /\ permissionLog[3].ip_address = "198.51.100.7"
    /\ permissionLog[3].user_agent.length = 600

\* ------------------------------------------------------------------ provisioning commands
\* The regions in the order of their codes.
RegionsByCode == <<"NE", "S">>

\* list(Region.objects.order_by("code")): the Region rows that are stored.
RegionObjects ==
    SelectSeq(RegionsByCode, LAMBDA r : objectStore[[kind |-> "region", id |-> r]] = "stored")

\* The default of --group-prefix.
GroupPrefixes == {"Region - "}

\* A group name: the prefix and the name it is put before.
GroupName(prefix, name) == <<prefix, name>>

\* cities.constants.GLOBAL_VIEW_GROUP
GLOBAL_VIEW_GROUP == GroupName("Region Control - ", "Brasil")

\* The default of --global-group.
GlobalAccessGroup == GroupName("", "Cities - Global Access")

\* The steps of a command inside its transaction: a Group get_or_create, a
\* GroupResourcePermission get_or_create with the region in the lookup (scoped)
\* or without it, and the assignment of the superusers to a group.
GroupItem(g) == [kind |-> "group", group |-> g, rp |-> <<>>, region |-> NULL, scoped |-> FALSE]

\* Mutant: the region is left out of the link, the row is created without one.
LinkItem_noregion(g, rp, region, scoped) ==
    [kind |-> "link", group |-> g, rp |-> rp, region |-> NULL, scoped |-> scoped]

LinkItem(g, rp, region, scoped) ==
    [kind |-> "link", group |-> g, rp |-> rp, region |-> region, scoped |-> scoped]

AssignItem(g) == [kind |-> "assign", group |-> g, rp |-> <<>>, region |-> NULL, scoped |-> FALSE]

\* The links of one group, one per permission type in the order of the option.
RECURSIVE Links(_, _, _, _, _)
Links(g, resource, permission_types, region, scoped) ==
    IF permission_types = <<>> THEN <<>>
    ELSE <<LinkItem(g, <<resource, Head(permission_types)>>, region, scoped)>>
         \o Links(g, resource, Tail(permission_types), region, scoped)

\* setup_region_permissions: _create_region_groups, then _create_global_group
\* under --create-global.
RECURSIVE _create_region_groups(_, _, _, _)
_create_region_groups(regions, resource, permission_types, group_prefix) ==
    IF regions = <<>> THEN <<>>
    ELSE LET region == Head(regions)
             group == GroupName(group_prefix, RegionName(region))
         IN  <<GroupItem(group)>> \o Links(group, resource, permission_types, region, TRUE)
             \o _create_region_groups(Tail(regions), resource, permission_types, group_prefix)

_create_global_group(group_name, resource, permission_types) ==
    <<GroupItem(group_name)>> \o Links(group_name, resource, permission_types, NULL, TRUE)

setup_region_permissions(resource, permission_types, group_prefix, create_global) ==
    _create_region_groups(RegionObjects, resource, permission_types, group_prefix)
    \o (IF create_global
        THEN _create_global_group(GlobalAccessGroup, resource, permission_types)
        ELSE <<>>)

\* create_region_groups: per region the group, _assign_permissions and, under
\* --auto-assign-superusers, _auto_assign_superusers; then
\* _ensure_global_view_group.
RECURSIVE RegionControlGroups(_, _, _, _)
RegionControlGroups(regions, resource, permission_types, auto_assign) ==
    IF regions = <<>> THEN <<>>
    ELSE LET group == GroupName("Region Control - ", RegionName(Head(regions)))
         IN  <<GroupItem(group)>> \o Links(group, resource, permission_types, NULL, FALSE)
             \o (IF auto_assign THEN <<AssignItem(group)>> ELSE <<>>)
             \o RegionControlGroups(Tail(regions), resource, permission_types, auto_assign)

_ensure_global_view_group(resource, permission_types) ==
    <<GroupItem(GLOBAL_VIEW_GROUP)>>
    \o (IF \E i \in DOMAIN permission_types : permission_types[i] = "view"
        THEN <<LinkItem(GLOBAL_VIEW_GROUP, <<resource, "view">>, NULL, FALSE)>>
        ELSE <<>>)

create_region_groups(resource, permission_types, auto_assign) ==
    RegionControlGroups(RegionObjects, resource, permission_types, auto_assign)
    \o _ensure_global_view_group(resource, permission_types)

\* The tables as they are.
ProvisionStore ==
    [authGroups |-> authGroups, groupPerms |-> groupPerms,
     permissionLog |-> permissionLog, userGroups |-> userGroups]

\* _log_creation and _log_assignment: a row for the first superuser, none
\* without a superuser.
GroupAddedRows(item) ==
    IF superusers = {} THEN <<>>
    ELSE <<PermissionLogRow(CHOOSE u \in superusers : TRUE, "group_added",
                            <<item.rp[1]>>,
                            <<item.group[1], item.group[2], "<=", item.rp[1], item.rp[2],
                              IF ~item.scoped THEN "create_region_groups"
                              ELSE IF item.region = NULL THEN "GLOBAL"
                              ELSE RegionName(item.region)>>,
                            NULL, NoUserAgent)>>

\* The row a link step creates.
LinkRow(item) == [group |-> item.group, rp |-> item.rp, region |-> item.region]

\* Mutant: objects.create in the place of get_or_create, the row is created
\* whether or not one matches.
ApplyItem_create(item, s) ==
    CASE item.kind = "group" ->
           [store |-> [s EXCEPT !.authGroups = @ \cup {item.group}], raised |-> NULL,
            duplicate |-> FALSE]
      [] item.kind = "assign" ->
           [store |-> [s EXCEPT !.userGroups =
                          [u \in Users |-> IF u \in superusers
                                           THEN s.userGroups[u] \cup {item.group}
                                           ELSE s.userGroups[u]]],
            raised |-> NULL, duplicate |-> FALSE]
      [] OTHER ->
           [store |-> [s EXCEPT !.groupPerms = @ \cup {LinkRow(item)},
                                !.permissionLog = @ \o GroupAddedRows(item)],
            raised |-> NULL, duplicate |-> LinkRow(item) \in s.groupPerms]

\* One step on the tables s: the tables after it, the exception it raises and
\* whether it created a link beside a row of the same group, permission and region.
ApplyItem(item, s) ==
    LET matches == {g \in s.groupPerms :
                       /\ g.group = item.group
                       /\ g.rp = item.rp
                       /\ (item.scoped => g.region = item.region)}
    IN  CASE item.kind = "group" ->
               [store |-> [s EXCEPT !.authGroups = @ \cup {item.group}], raised |-> NULL,
                duplicate |-> FALSE]
          [] item.kind = "assign" ->
               [store |-> [s EXCEPT !.userGroups =
                              [u \in Users |-> IF u \in superusers
                                               THEN s.userGroups[u] \cup {item.group}
                                               ELSE s.userGroups[u]]],
                raised |-> NULL, duplicate |-> FALSE]
          [] OTHER ->
               IF Cardinality(matches) > 1
               THEN [store |-> s, raised |-> "MultipleObjectsReturned", duplicate |-> FALSE]
               ELSE IF matches # {} THEN [store |-> s, raised |-> NULL, duplicate |-> FALSE]
               ELSE [store |-> [s EXCEPT
                                  !.groupPerms = @ \cup {LinkRow(item)},
                                  !.permissionLog = @ \o GroupAddedRows(item)],
                     raised |-> NULL, duplicate |-> LinkRow(item) \in s.groupPerms]

\* Mutant: the block is left without a transaction, what was written stays.
transaction_atomic_autocommit(raised, saved, current) == current

\* Leaving "with transaction.atomic()": an exception rolls the tables back to
\* what they were on entry.
transaction_atomic(raised, saved, current) ==
    IF raised # NULL THEN saved ELSE current

\* The permission types of the commands' --permissions.
PermissionOptions == {<<>>, <<"view">>, <<"view", "change">>}

\* Mutant: _fetch_permissions skips what it does not find and reports nothing.
Missing_none(resource, permission_types) == {}

\* The resource permissions a command needs and does not find.
Missing(resource, permission_types) ==
    {i \in DOMAIN permission_types : <<resource, permission_types[i]>> \notin resourcePerms}

\* Group rows and links as an administrator left them: nothing, or the control
\* group of Sul holding the view permission both for its region and globally.
ProvisionedBefore ==
    {[authGroups |-> {}, groupPerms |-> {}],
     [authGroups |-> {GroupName("Region Control - ", "Sul")},
      groupPerms |-> {[group |-> GroupName("Region Control - ", "Sul"),
                       rp |-> <<"cities.municipality", "view">>, region |-> r] :
                         r \in {"S", NULL}}]}

InitProvision ==
    /\ resourcePerms \in {{<<"cities.municipality", "view">>},
                          {<<"cities.municipality", "view">>,
                           <<"cities.municipality", "change">>}}
    /\ userPerms = {}
    /\ \E before \in ProvisionedBefore :
          /\ authGroups = before.authGroups
          /\ groupPerms = before.groupPerms
    /\ userGroups = [u \in Users |-> {}]
    /\ superusers \in SUBSET AuthUsers
    /\ now = 0
    /\ Fixture
    /\ last = NoCall
    /\ permissionLog = <<>>
    /\ \E populated \in {"stored", "absent"} : objectStore = [o \in GeoObjects |-> populated]
    /\ userGroupRows = {}
    /\ groupPermissionRows = {}
    /\ run = NoRun
    /\ userRows = AuthUsers
    /\ evaluation = NoEvaluation

\* The command a run record tells of, as the next run remembers it.
Ended(r) ==
    IF r.status = "idle" THEN r.previous
    ELSE [cmd |-> r.cmd, status |-> r.status, options |-> r.options]

\* handle up to the transaction: the options are checked and the resource
\* permissions fetched; CommandError, or a dry run, ends the command before any
\* write.
Handle(cmd, resource, permission_types, flag, group_prefix, dry_run) ==
    /\ run.status # "running"
    /\ run.count < MaxRuns
    /\ LET refused == \/ permission_types = <<>>
                      \/ RegionObjects = <<>>
                      \/ Missing(resource, permission_types) # {}
           work == IF cmd = "setup_region_permissions"
                   THEN setup_region_permissions(resource, permission_types,
                                                 group_prefix, flag)
                   ELSE create_region_groups(resource, permission_types, flag)
           started == [NoRun EXCEPT !.cmd = cmd, !.saved = ProvisionStore,
                                    !.count = run.count + 1,
                                    !.options = [resource |-> resource,
                                                 permission_types |-> permission_types,
                                                 flag |-> flag,
                                                 group_prefix |-> group_prefix,
                                                 dry_run |-> dry_run],
                                    !.previous = Ended(run)]
       IN  run' = IF refused
                  THEN [started EXCEPT !.status = "failed", !.raised = "CommandError"]
                  ELSE IF dry_run
                  THEN [started EXCEPT !.status = "done"]
                  ELSE [started EXCEPT !.status = "running", !.work = work,
                                       !.todo = work]
    /\ UNCHANGED <<store, now, geo, last, permissionLog, objectStore, userGroupRows,
                   groupPermissionRows, authGroups, userRows, evaluation>>

\* The next statement of the block; db_error: the database refuses it.
Step(db_error) ==
    /\ run.status = "running"
    /\ run.todo # <<>>
    /\ \E result \in {ApplyItem(Head(run.todo), ProvisionStore)} :
          LET raised == IF db_error THEN "DatabaseError" ELSE result.raised
              after == transaction_atomic(raised, run.saved, result.store)
          IN  /\ authGroups' = after.authGroups
              /\ groupPerms' = after.groupPerms
              /\ permissionLog' = after.permissionLog
              /\ userGroups' = after.userGroups
              /\ run' = IF raised # NULL
                        THEN [run EXCEPT !.status = "failed", !.raised = raised]
                        ELSE [run EXCEPT !.todo = Tail(@), !.done = @ + 1,
                                         !.duplicates = @ + (IF result.duplicate
                                                             THEN 1 ELSE 0)]
    /\ UNCHANGED <<resourcePerms, userPerms, superusers, now, geo, last, objectStore,
                   userGroupRows, groupPermissionRows, userRows, evaluation>>

\* The block ends without an exception and the command prints its summary.
Finish ==
    /\ run.status = "running"
    /\ run.todo = <<>>
    /\ run' = [run EXCEPT !.status = "done"]
    /\ UNCHANGED <<store, now, geo, last, permissionLog, objectStore, userGroupRows,
                   groupPermissionRows, authGroups, userRows, evaluation>>

\* The command returns to the shell.
Exit ==
    /\ run.status \in {"done", "failed"}
    /\ run' = [NoRun EXCEPT !.count = run.count, !.previous = Ended(run)]
    /\ UNCHANGED <<store, now, geo, last, permissionLog, objectStore, userGroupRows,
                   groupPermissionRows, authGroups, userRows, evaluation>>

NextProvision ==
    \/ \E permission_types \in PermissionOptions, create_global \in BOOLEAN,
            group_prefix \in GroupPrefixes, dry_run \in BOOLEAN :
          Handle("setup_region_permissions", "cities.municipality", permission_types,
                 create_global, group_prefix, dry_run)
    \/ \E permission_types \in PermissionOptions, auto_assign \in BOOLEAN :
          Handle("create_region_groups", "cities.municipality", permission_types,
                 auto_assign, "Region Control - ", FALSE)
    \/ \E db_error \in BOOLEAN : Step(db_error)
    \/ Finish
    \/ Exit
    \/ \E u \in AuthUsers, g \in authGroups : run.status = "idle" /\ SetUserGroups(u, {g})

SpecProvision == InitProvision /\ [][NextProvision]_vars

\* The links a run asked for that a group lacks.
MissingLinks(g) ==
    {i \in DOMAIN run.work :
        /\ run.work[i].kind = "link"
        /\ run.work[i].group = g
        /\ ~\E row \in groupPerms :
               /\ row.group = g
               /\ row.rp = run.work[i].rp
               /\ (run.work[i].scoped => row.region = run.work[i].region)}

\* C18: a run of setup_region_permissions or of create_region_groups that fails
\* leaves the groups, the links, the memberships and the log as they were before
\* the run; and after a run, failed or not, no group that the run created lacks
\* a link the run asked for.
C18_AtomicProvisioning ==
    /\ run.status = "failed" => ProvisionStore = run.saved
    /\ run.status \in {"failed", "done"} =>
          \A g \in authGroups \ run.saved.authGroups : MissingLinks(g) = {}

\* A run failed after it had created a group and a link: neither is there.
C18_Witness ==
    /\ run.status = "failed"
    /\ run.raised \in {"DatabaseError", "MultipleObjectsReturned"}
    /\ run.done >= 3
    /\ run.work[1].kind = "group"
    /\ run.work[1].group \notin authGroups
    /\ run.work[2].kind = "link"
    /\ ~\E row \in groupPerms : row.group = run.work[1].group

\* ------------------------------------------------------------------ LoginRequiredMiddleware
\* A path is the sequence of its parts: the slashes and the segments between
\* them.
Segments == {"auth", "login", "register", "health", "admin", "static", "media", "cities"}

SegmentSeqs == UNION {[1..n -> Segments] : n \in 0..MaxSegments}

\* The path of the segments, with or without the slash at its end.
RECURSIVE Path(_, _)
Path(segments, slash) ==
    IF segments = <<>> THEN <<"/">>
    ELSE IF Len(segments) = 1
    THEN <<"/", segments[1]>> \o (IF slash THEN <<"/">> ELSE <<>>)
    ELSE <<"/", Head(segments)>> \o Path(Tail(segments), slash)

RequestPaths == {Path(segments, slash) : segments \in SegmentSeqs, slash \in BOOLEAN}

\* str.startswith
StartsWith(s, prefix) ==
    Len(s) >= Len(prefix) /\ SubSeq(s, 1, Len(prefix)) = prefix

\* self.whitelist
whitelist ==
    {<<"/", "auth", "/", "login", "/">>, <<"/", "auth", "/", "register", "/">>,
     <<"/", "health", "/">>, <<"/", "admin", "/", "login", "/">>}

login_url == <<"/", "auth", "/", "login", "/">>

\* Mutant: a path that starts with a whitelisted URL is let through.
LoginRequiredMiddleware_prefix(u, path) ==
    IF \E w \in whitelist : StartsWith(path, w)
    THEN [response |-> "view", location |-> <<>>]
    ELSE IF StartsWith(path, <<"/", "static", "/">>) \/ StartsWith(path, <<"/", "media", "/">>)
    THEN [response |-> "view", location |-> <<>>]
    ELSE IF is_authenticated(u) THEN [response |-> "view", location |-> <<>>]
    ELSE IF path = login_url THEN [response |-> "view", location |-> <<>>]
    ELSE [response |-> "redirect", location |-> login_url \o <<"?next=">> \o path]

\* LoginRequiredMiddleware.__call__: the view answers (get_response), or the
\* request is redirected to the location.
LoginRequiredMiddleware(u, path) ==
    IF path \in whitelist
    THEN [response |-> "view", location |-> <<>>]
    ELSE IF StartsWith(path, <<"/", "static", "/">>) \/ StartsWith(path, <<"/", "media", "/">>)
    THEN [response |-> "view", location |-> <<>>]
    ELSE IF is_authenticated(u) THEN [response |-> "view", location |-> <<>>]
    ELSE IF path = login_url THEN [response |-> "view", location |-> <<>>]
    ELSE [response |-> "redirect", location |-> login_url \o <<"?next=">> \o path]

\* A request passes the middleware.
Request(u, path) ==
    /\ \E result \in {LoginRequiredMiddleware(u, path)} :
          last' = [NoCall EXCEPT !.op = "LoginRequiredMiddleware", !.user = u,
                     !.path = path, !.response = result.response,
                     !.location = result.location]
    /\ UNCHANGED <<store, now, geo, aux>>

NextMiddleware ==
    \E u \in Users, path \in RequestPaths : Request(u, path)

SpecMiddleware == Init /\ [][NextMiddleware]_vars

\* The paths open to everyone, by their segments.
OpenSegments(segments, slash) ==
    \/ slash /\ segments \in {<<"auth", "login">>, <<"auth", "register">>, <<"health">>,
                              <<"admin", "login">>}
    \/ /\ segments # <<>>
       /\ segments[1] \in {"static", "media"}
       /\ Len(segments) > 1 \/ slash

\* C20: the request of an authenticated user reaches the view; the request of
\* an unauthenticated user reaches the view exactly when its path is one of
\* /auth/login/, /auth/register/, /health/ and /admin/login/ or lies under
\* /static/ or /media/, and is otherwise redirected to /auth/login/?next=<path>
\* without the view being called.
C20_LoginRequired ==
    last.op = "LoginRequiredMiddleware" =>
        \A segments \in SegmentSeqs, slash \in BOOLEAN :
            last.path = Path(segments, slash) =>
                /\ is_authenticated(last.user) => last.response = "view"
                /\ ~is_authenticated(last.user) =>
                      /\ last.response = "view" <=> OpenSegments(segments, slash)
                      /\ last.response # "view" =>
                            /\ last.response = "redirect"
                            /\ last.location = <<"/", "auth", "/", "login", "/", "?next=">>
                                                  \o last.path

\* An unauthenticated request for /health/cities, a path under a whitelisted
\* URL, was redirected to the login page with the path as next.
C20_Witness ==
    /\ last.op = "LoginRequiredMiddleware"
    /\ ~is_authenticated(last.user)
    /\ last.path = <<"/", "health", "/", "cities">>
    /\ last.response = "redirect"
    /\ last.location = <<"/", "auth", "/", "login", "/", "?next=",
                         "/", "health", "/", "cities">>

\* ------------------------------------------------------------------ the evaluators compared
\* The calls that evaluate access: the evaluator of decorators.py and the check
\* of PermissionRequiredMixin behind dispatch.
AccessChecks == {"check_resource_permission", "get_user_permitted_regions", "dispatch"}

\* C21: an access check changes no User, Group, grant or geography row; the only
\* row it may write is one PermissionLog row with action 'access_denied', and
\* only when it denies; and what it returns is what the same check returns on
\* the same store at the same time.
C21_PureRead ==
    [][last'.op \in AccessChecks =>
          /\ store' = store
          /\ geo' = geo
          /\ tables' = tables
          /\ now' = now
          /\ permissionLog' # permissionLog =>
                /\ ~last'.granted
                /\ Len(permissionLog') = Len(permissionLog) + 1
                /\ SubSeq(permissionLog', 1, Len(permissionLog)) = permissionLog
                /\ permissionLog'[Len(permissionLog')].action = "access_denied"
          /\ last'.op = "dispatch" =>
                last'.granted = dispatch(last'.user, last'.meta, last'.resource,
                                         last'.ptype, last'.write_ok).granted]_vars

\* Global contains every set of regions.
Contains(larger, smaller) ==
    larger.global \/ (~smaller.global /\ smaller.ids \subseteq larger.ids)

\* A step that adds UserPermission or GroupResourcePermission rows and changes
\* nothing else of the store, nor the time.
RowsAdded ==
    /\ userPerms \subseteq userPerms'
    /\ groupPerms \subseteq groupPerms'
    /\ <<userPerms', groupPerms'>> # <<userPerms, groupPerms>>
    /\ <<resourcePerms', userGroups', superusers', now'>>
          = <<resourcePerms, userGroups, superusers, now>>

\* C22: adding a UserPermission or GroupResourcePermission row turns no result
\* of check_resource_permission from true to false and takes no region out of
\* get_user_permitted_regions (Global containing every set); and in every store
\* the administration produces a global row and a row of the region each
\* satisfy a check scoped to the region, whatever other rows there are.
C22_Monotone ==
    [][store' # store =>
       \A u \in Users, r \in ResourceNames, t \in PermissionTypes :
          /\ RowsAdded =>
                /\ \A region \in RegionOrNull :
                      check_resource_permission(u, r, t, region)
                         => check_resource_permission(u, r, t, region)'
                /\ Contains(get_user_permitted_regions(u, r, t)',
                            get_user_permitted_regions(u, r, t))
          /\ \A region \in Regions :
                (\E g \in MatchingGroupPerms(u, r, t)' :
                    g.region = NULL \/ g.region = region)
                   => check_resource_permission(u, r, t, region)']_vars

\* A user whose group holds the view permission both globally and for Sul was
\* asked about Nordeste after the row for Sul was added beside the global one:
\* the global row still grants.
C22_Witness ==
    /\ last.op = "check_resource_permission"
    /\ last.region = "NE"
    /\ last.granted
    /\ QualifyingUserPerms(last.user, last.resource, last.ptype) = {}
    /\ {g.region : g \in MatchingGroupPerms(last.user, last.resource, last.ptype)}
          = {NULL, "S"}
    /\ get_user_permitted_regions(last.user, last.resource, last.ptype) = Global

\* values_list('region_id', flat=True): the region ids of the rows, one per row.
RECURSIVE values_list_region_id(_)
values_list_region_id(group_perms) ==
    IF group_perms = {} THEN <<>>
    ELSE LET g == CHOOSE x \in group_perms : TRUE
         IN  <<g.region>> \o values_list_region_id(group_perms \ {g})

\* Mutant: the ids are returned as they come, one per row.
distinct_none(ids) == ids

\* .distinct(): every id once, at its first place.
RECURSIVE distinct(_)
distinct(ids) ==
    IF ids = <<>> THEN <<>>
    ELSE LET rest == distinct(SubSeq(ids, 1, Len(ids) - 1))
             id == ids[Len(ids)]
         IN  IF \E i \in DOMAIN rest : rest[i] = id THEN rest ELSE Append(rest, id)

\* The list get_user_permitted_regions returns when it does not return None.
permitted_region_list(u, resource_name, permission_type) ==
    IF ~is_authenticated(u) THEN <<>>
    ELSE distinct(values_list_region_id(
                      MatchingGroupPerms(u, resource_name, permission_type)))

\* C23: for an authenticated user who is no superuser and a region,
\* check_resource_permission at the region is true exactly when
\* get_user_permitted_regions is Global or holds the region; and when it is not
\* Global, the list it returns has no id twice, holds ids of regions only, no
\* null, and is the ids of the result.
C23_SelfConsistent ==
    \A u \in AuthUsers, r \in ResourceNames, t \in PermissionTypes :
        ~is_superuser(u) =>
            LET permitted == get_user_permitted_regions(u, r, t)
                ids == permitted_region_list(u, r, t)
            IN  /\ \A region \in Regions :
                      check_resource_permission(u, r, t, region)
                         <=> (permitted.global \/ region \in permitted.ids)
                /\ ~permitted.global =>
                      /\ \A i, j \in DOMAIN ids : ids[i] = ids[j] => i = j
                      /\ \A i \in DOMAIN ids : ids[i] \in Regions
                      /\ {ids[i] : i \in DOMAIN ids} = permitted.ids

\* A user in two groups that both hold the view permission for Nordeste, and
\* one of them for Sul: three rows, two ids, and the check at Sul was granted.
C23_Witness ==
    /\ last.op = "check_resource_permission"
    /\ last.region = "S"
    /\ last.granted
    /\ ~is_superuser(last.user)
    /\ Cardinality(MatchingGroupPerms(last.user, last.resource, last.ptype)) = 3
    /\ get_user_permitted_regions(last.user, last.resource, last.ptype)
          = RegionIds({"NE", "S"})
    /\ Len(permitted_region_list(last.user, last.resource, last.ptype)) = 2

\* C24: for a user who is no superuser and passes the base permission, and an
\* object of a model of the hierarchy, has_view_permission of the object is true
\* exactly when the object is in the queryset get_queryset returns to the user.
C24_ListAndObjectAgree ==
    (/\ last.op = "has_view_permission"
     /\ last.obj # NoObject
     /\ last.base
     /\ ~is_superuser(last.user))
        => (last.granted <=> last.obj.id \in get_queryset(last.user, last.model))

\* ------------------------------------------------------------------ the view decorator
\* reverse('core:main'), the page a refused user is sent to.
main_url == <<"/">>

\* Mutant: the decorator does not filter the direct grants on their expiry.
permission_required_unexpired(u, resource_name, permission_type, raise_exception) ==
    IF ~is_authenticated(u)
    THEN IF raise_exception
         THEN [ran |-> FALSE, raised |-> "PermissionDenied", location |-> <<>>]
         ELSE [ran |-> FALSE, raised |-> NULL, location |-> login_url]
    ELSE LET user_perms == {p \in userPerms :
                               /\ p.user = u
                               /\ p.rp[1] = resource_name
                               /\ p.rp[2] = permission_type
                               /\ p.is_active}
             group_perms == {g \in groupPerms :
                                /\ g.group \in userGroups[u]
                                /\ g.rp[1] = resource_name
                                /\ g.rp[2] = permission_type}
         IN  IF user_perms # {} \/ group_perms # {}
             THEN [ran |-> TRUE, raised |-> NULL, location |-> <<>>]
             ELSE IF raise_exception
             THEN [ran |-> FALSE, raised |-> "PermissionDenied", location |-> <<>>]
             ELSE [ran |-> FALSE, raised |-> NULL, location |-> main_url]

\* The wrapper of permission_required(resource_name, permission_type,
\* raise_exception) called by the user: whether view_func ran, the exception raised
\* and the target of the redirect. The decorator repeats the queries of the
\* evaluator: the direct grants that are active and not expired, then the group rows.
permission_required(u, resource_name, permission_type, raise_exception) ==
    IF ~is_authenticated(u)
    THEN IF raise_exception
         THEN [ran |-> FALSE, raised |-> "PermissionDenied", location |-> <<>>]
         ELSE [ran |-> FALSE, raised |-> NULL, location |-> login_url]
    ELSE LET user_perms == {p \in userPerms :
                               /\ p.user = u
                               /\ p.rp[1] = resource_name
                               /\ p.rp[2] = permission_type
                               /\ p.is_active}
             active_user_perms == {p \in user_perms :
                                      p.expires_at = <<>> \/ p.expires_at[1] > now}
             group_perms == {g \in groupPerms :
                                /\ g.group \in userGroups[u]
                                /\ g.rp[1] = resource_name
                                /\ g.rp[2] = permission_type}
         IN  IF active_user_perms # {} THEN [ran |-> TRUE, raised |-> NULL, location |-> <<>>]
             ELSE IF group_perms # {} THEN [ran |-> TRUE, raised |-> NULL, location |-> <<>>]
             ELSE IF raise_exception
             THEN [ran |-> FALSE, raised |-> "PermissionDenied", location |-> <<>>]
             ELSE [ran |-> FALSE, raised |-> NULL, location |-> main_url]

\* A request to a view wrapped by the decorator.
CallPermissionRequired(u, resource_name, permission_type, raise_exception) ==
    /\ \E result \in {permission_required(u, resource_name, permission_type, raise_exception)} :
          last' = [NoCall EXCEPT !.op = "permission_required", !.user = u,
                     !.resource = resource_name, !.ptype = permission_type,
                     !.raise_exception = raise_exception,
                     !.granted = result.ran, !.raised = result.raised,
                     !.location = result.location]
    /\ UNCHANGED <<store, now, geo, aux>>

\* The store is administered while the decorated views are requested.
NextDecorator ==
    \/ \E u \in AuthUsers, rp \in resourcePerms, active \in BOOLEAN, exp \in ExpiryValues :
          AddUserPermission(u, rp, active, exp)
    \/ \E p \in userPerms, active \in BOOLEAN, exp \in ExpiryValues :
          ChangeUserPermission(p, active, exp)
    \/ \E p \in userPerms : DeleteUserPermission(p)
    \/ \E g \in Groups, rp \in resourcePerms, region \in RegionOrNull :
          AddGroupPermission(g, rp, region)
    \/ \E g \in groupPerms : DeleteGroupPermission(g)
    \/ \E u \in AuthUsers, gs \in SUBSET Groups : SetUserGroups(u, gs)
    \/ \E rp \in ResourcePermissions : AddResourcePermission(rp)
    \/ \E rp \in ResourcePermissions : DeleteResourcePermission(rp)
    \/ Tick
    \/ \E u \in Users, r \in ResourceNames, t \in PermissionTypes, raise_exception \in BOOLEAN :
          CallPermissionRequired(u, r, t, raise_exception)

SpecDecorator == Init /\ [][NextDecorator]_vars

\* C25: for an authenticated user the decorator lets the wrapped view run exactly
\* when check_resource_permission(user, resource, permission_type, region=None) is
\* true; for an unauthenticated user the view does not run and the request ends in
\* PermissionDenied or in a redirect to the login page.
C25_EvaluatorsAgree ==
    last.op = "permission_required" =>
        /\ is_authenticated(last.user) =>
              (last.granted <=> check_resource_permission(last.user, last.resource,
                                                          last.ptype, NULL))
        /\ ~is_authenticated(last.user) =>
              /\ ~last.granted
              /\ (last.raised = "PermissionDenied" \/ last.location = login_url)

\* An expired direct grant does not let the view run, and the user is sent to the
\* main page.
C25_Witness ==
    /\ last.op = "permission_required"
    /\ is_authenticated(last.user)
    /\ ~last.granted
    /\ last.location = main_url
    /\ \E p \in userPerms :
          /\ p.user = last.user /\ p.rp = <<last.resource, last.ptype>>
          /\ p.is_active /\ p.expires_at # <<>>

\* ------------------------------------------------------------------ evaluation among commits
\* check_resource_permission runs as two statements, user_perms.exists() and
\* group_perms.exists(); each reads the rows committed when it runs, and the
\* administration commits between them.

\* What the evaluator answers on the store as it stands, for the call in progress.
Answer ==
    check_resource_permission(evaluation.user, evaluation.resource, evaluation.ptype,
                              evaluation.region)

\* The answers on the stores the window of the call has passed are all recorded.
Recorded == evaluation.stage = "group_perms" => Answer \in evaluation.answers

\* Lines 34-48: the group rows of the user's groups, filtered on the region when
\* one is given, read from the rows committed now.
group_perms_exists(u, resource_name, permission_type, region) ==
    LET group_perms == MatchingGroupPerms(u, resource_name, permission_type)
        scoped == IF region # NULL
                  THEN {g \in group_perms : g.region = NULL \/ g.region = region}
                  ELSE group_perms
    IN  scoped # {}

\* Lines 18-31: the call starts; an anonymous user and a user with a qualifying
\* direct grant are answered at once, for the others the group query follows.
QueryUserPerms(u, resource_name, permission_type, region) ==
    /\ evaluation.stage # "group_perms"
    /\ \E call \in {[NoEvaluation EXCEPT !.user = u, !.resource = resource_name,
                                         !.ptype = permission_type, !.region = region,
                                         !.answers = {check_resource_permission(
                                              u, resource_name, permission_type, region)}]} :
          IF ~is_authenticated(u)
          THEN evaluation' = [call EXCEPT !.stage = "returned", !.granted = FALSE]
          ELSE IF QualifyingUserPerms(u, resource_name, permission_type) # {}
          THEN evaluation' = [call EXCEPT !.stage = "returned", !.granted = TRUE]
          ELSE evaluation' = [call EXCEPT !.stage = "group_perms"]
    /\ last' = NoCall
    /\ UNCHANGED <<store, now, geo, permissionLog, objectStore, userGroupRows,
                   groupPermissionRows, authGroups, run, userRows>>

\* The record of the window takes up the answer on the store a commit has left.
Record ==
    /\ evaluation.stage = "group_perms"
    /\ Answer \notin evaluation.answers
    /\ evaluation' = [evaluation EXCEPT !.answers = @ \cup {Answer}]
    /\ UNCHANGED <<store, now, geo, last, permissionLog, objectStore, userGroupRows,
                   groupPermissionRows, authGroups, run, userRows>>

\* Lines 34-48: the second statement runs and the call returns.
QueryGroupPerms ==
    /\ evaluation.stage = "group_perms"
    /\ Recorded
    /\ evaluation' = [evaluation EXCEPT
                         !.stage = "returned",
                         !.granted = group_perms_exists(evaluation.user, evaluation.resource,
                                                        evaluation.ptype, evaluation.region)]
    /\ last' = NoCall
    /\ UNCHANGED <<store, now, geo, permissionLog, objectStore, userGroupRows,
                   groupPermissionRows, authGroups, run, userRows>>

\* Grants are given and taken while a request evaluates.
NextRace ==
    \/ \E u \in AuthUsers, rp \in resourcePerms, active \in BOOLEAN, exp \in ExpiryValues :
          Recorded /\ AddUserPermission(u, rp, active, exp)
    \/ \E p \in userPerms : Recorded /\ DeleteUserPermission(p)
    \/ \E g \in Groups, rp \in resourcePerms, region \in RegionOrNull :
          Recorded /\ AddGroupPermission(g, rp, region)
    \/ \E g \in groupPerms : Recorded /\ DeleteGroupPermission(g)
    \/ \E u \in AuthUsers, gs \in SUBSET Groups : Recorded /\ SetUserGroups(u, gs)
    \/ Recorded /\ Tick
    \/ \E u \in Users, r \in ResourceNames, t \in PermissionTypes, region \in RegionOrNull :
          QueryUserPerms(u, r, t, region)
    \/ Record
    \/ QueryGroupPerms

SpecRace == Init /\ [][NextRace]_vars

\* C26: the answer of an evaluation that ran among commits is the answer of the
\* evaluator on one of the stores between its start and its end; so when the user
\* held a qualifying grant on every one of them, the answer is true.
C26_SingleInstant ==
    evaluation.stage = "returned" => evaluation.granted \in evaluation.answers

\* ------------------------------------------------------------------ what the commands provision
\* The run is one of setup_region_permissions that wrote.
SetupRun(r) == r.cmd = "setup_region_permissions" /\ ~r.options.dry_run

\* The links the run created.
CreatedLinks == groupPerms \ run.saved.groupPerms

C28_RegionControlScoped ==
    /\ (run.cmd = "create_region_groups" /\ run.status = "done") =>
          \A row \in CreatedLinks :
             row.region = NULL => (row.group = GLOBAL_VIEW_GROUP /\ row.rp[2] = "view")
    /\ (/\ run.status = "idle"
        /\ run.previous.cmd = "create_region_groups"
        /\ run.previous.status = "done") =>
          LET o == run.previous.options
          IN  \A u \in AuthUsers, X \in Regions, Y \in Regions,
                 j \in DOMAIN o.permission_types :
                 userGroups[u] = {GroupName("Region Control - ", RegionName(X))}
                    => (check_resource_permission(u, o.resource, o.permission_types[j], Y)
                           <=> Y = X)

\* The run repeats the command that ended before it, with the same options.
Repeated ==
    /\ SetupRun(run)
    /\ run.previous.cmd = run.cmd
    /\ run.previous.status = "done"
    /\ run.previous.options = run.options

\* C29: a run of setup_region_permissions that repeats the successful run before
\* it, with the same options, creates no group, no link and no log row and leaves
\* the tables as they were; and no run of the command creates a link beside a row
\* of the same group, permission and region, the null region included.
C29_Idempotent ==
    /\ Repeated => (ProvisionStore = run.saved /\ run.duplicates = 0)
    /\ run.cmd = "setup_region_permissions" => run.duplicates = 0

\* The second run has gone through its block and ended; the first one had created
\* the groups, the links with and without a region and the log rows.
C29_Witness ==
    /\ Repeated
    /\ run.status = "done"
    /\ run.options.flag
    /\ run.done = Len(run.work)
    /\ run.done >= 6
    /\ permissionLog # <<>>
    /\ \E row \in groupPerms : row.group = GlobalAccessGroup /\ row.region = NULL
    /\ \E row \in groupPerms : row.group = GroupName("Region - ", RegionName("NE"))

\* C30: setup_region_permissions changes nothing under --dry-run, when no Region
\* is stored and when a ResourcePermission of a requested type is missing: the
\* command ends before the first statement of its block, the last two cases with
\* CommandError, and the tables are as they were.
C30_NoChange ==
    LET o == run.options
        no_regions == RegionObjects = <<>>
        missing == \E i \in DOMAIN o.permission_types :
                      <<o.resource, o.permission_types[i]>> \notin resourcePerms
    IN  (/\ run.cmd = "setup_region_permissions"
         /\ (o.dry_run \/ no_regions \/ missing))
           => /\ run.status \in {"done", "failed"}
              /\ run.done = 0
              /\ ProvisionStore = run.saved
              /\ (no_regions \/ missing) =>
                    (run.status = "failed" /\ run.raised = "CommandError")
              /\ run.status = "done" => o.dry_run

\* A dry run ended, and the run after it asked for "change" where only "view"
\* exists: both left the tables empty.
C30_Witness ==
    /\ run.cmd = "setup_region_permissions"
    /\ run.status = "failed"
    /\ run.raised = "CommandError"
    /\ ~run.options.dry_run
    /\ run.options.permission_types = <<"view", "change">>
    /\ <<"cities.municipality", "change">> \notin resourcePerms
    /\ RegionObjects # <<>>
    /\ run.previous.cmd = "setup_region_permissions"
    /\ run.previous.status = "done"
    /\ run.previous.options.dry_run
    /\ groupPerms = {}
    /\ authGroups = {}

====
